---- MODULE Spec2Model ----
(***************************************************************************)
(* Verification model of the AI-file validation package                    *)
(* (backend/web/src/scripts/python/validation).                            *)
(*                                                                         *)
(* Units.  File lengths are integers in hundredths of a point (cpt),       *)
(* real-world lengths are integers in thousandths of a millimetre (um),    *)
(* the file scale is held in tenths (S10 = 1 for 0.1, S10 = 10 for 1.0).   *)
(* The code's conversion  real_mm = file_pt / (72 * scale) * 25.4  then    *)
(* reads  real_um = cpt * 2540 / (72 * S10); comparisons against it are    *)
(* made exactly, by cross-multiplying with 72 * S10.                       *)
(***************************************************************************)
EXTENDS Integers, Sequences, FiniteSets, TLC

VARIABLES
    \* ---- convert_ai_to_svg_multi called on its own (SpecConv) ----
    cpc,          \* position inside convert_ai_to_svg_multi
    cExists,      \* os.path.exists(ai_path)
    outFile,      \* what lies at output_svg: [kind, by]
    attempts,     \* the attempts list: sequence of [name, ok, err, wrote]
    cResult,      \* what convert_ai_to_svg_multi returned: (success, message,
                  \* attempts), or NoResult while it has not returned
    \* ---- validate_file (Spec, SpecTwice) ----
    input,        \* the call: [file, doc, rules]
    pc,           \* position inside validate_file
    fs,           \* the files that exist: subset of {"input", "temp"}
    temp_svg,     \* local temp_svg: None or "temp"
    svg_path,     \* local svg_path: None, "input" or "temp"
    detected_svg_scale,   \* "" for None, else "1/72"
    paths_info,   \* local paths_info
    set_order,        \* iteration order of the layer-name set in this process
    stats,        \* local stats
    letter_analysis,      \* local letter_analysis
    all_issues,   \* local all_issues
    result,       \* the returned ValidationResult, or NoValidation
    ran,          \* the stages that have run
    run,          \* 1 for the first call, 2 for the repeated call
    prev,         \* the result of the first call, once repeated
    raised,       \* the text of the exception raised in this call, <<>> if none
    \* ---- build_layer_and_transform_map (SpecLayers) ----
    group_to_layer,   \* local group_to_layer: element id -> layer name
    layer_map,    \* local layer_map: path id -> layer name
    transform_map \* local transform_map: path id -> transform chain

convVars == <<cpc, cExists, outFile, attempts, cResult>>

pipeVars == <<input, pc, fs, temp_svg, svg_path, detected_svg_scale, paths_info, set_order,
              stats, letter_analysis, all_issues, result, ran, run, prev, raised>>

layerVars == <<group_to_layer, layer_map, transform_map>>

vars == <<convVars, pipeVars, layerVars>>

\* build_layer_and_transform_map is not running: both dicts are empty.
LayersIdle ==
    /\ group_to_layer = <<>>
    /\ layer_map = <<>>
    /\ transform_map = <<>>

None == "None"

\* stats = {} and letter_analysis = None at the entry of validate_file, and
\* the value of result while no ValidationResult has been returned.
EmptyStats == [filled |-> FALSE]

NoAnalysis == [none |-> TRUE]

NoValidation ==
    [success |-> FALSE, status |-> "pending", issues |-> <<>>, stats |-> EmptyStats,
     error |-> <<>>]

\* validate_file is not running (convert_ai_to_svg_multi is called alone).
PipeIdle ==
    /\ input = [file |-> None, doc |-> None, rules |-> None]
    /\ pc = "idle"
    /\ fs = {}
    /\ temp_svg = None
    /\ svg_path = None
    /\ detected_svg_scale = ""
    /\ paths_info = <<>>
    /\ set_order = <<>>
    /\ stats = EmptyStats
    /\ letter_analysis = NoAnalysis
    /\ all_issues = <<>>
    /\ result = NoValidation
    /\ ran = {}
    /\ run = 1
    /\ prev = NoValidation
    /\ raised = <<>>

(***************************************************************************)
(* Small helpers over sequences.                                           *)
(***************************************************************************)
RECURSIVE SeqFilterIdx(_, _, _)
SeqFilterIdx(s, Keep(_), i) ==
    IF i > Len(s) THEN <<>>
    ELSE (IF Keep(s[i]) THEN <<s[i]>> ELSE <<>>) \o SeqFilterIdx(s, Keep, i + 1)

SeqFilter(s, Keep(_)) == SeqFilterIdx(s, Keep, 1)

RECURSIVE SeqCount(_, _, _)
SeqCount(s, P(_), i) ==
    IF i > Len(s) THEN 0
    ELSE (IF P(s[i]) THEN 1 ELSE 0) + SeqCount(s, P, i + 1)

Count(s, P(_)) == SeqCount(s, P, 1)

RECURSIVE Flatten(_)
Flatten(ss) == IF ss = <<>> THEN <<>> ELSE Head(ss) \o Flatten(Tail(ss))

Range(s) == {s[i] : i \in 1..Len(s)}

Abs(x) == IF x < 0 THEN -x ELSE x

Max2(a, b) == IF a >= b THEN a ELSE b

(***************************************************************************)
(* ai_converters.py: the three converters and convert_ai_to_svg_multi.     *)
(* A converter run is an external process; what it does is an input:       *)
(* how it ends (run) and what it leaves at the output path (writes).       *)
(***************************************************************************)
NoResult == [success |-> FALSE, message |-> <<"pending">>, attempts |-> <<>>]

AbsentFile == [kind |-> "absent", by |-> None]

EmptyFile == [kind |-> "empty", by |-> None]

RunKinds == {"exit0", "nonzero", "timeout"}

WriteKinds == {"nothing", "empty", "invalid", "svg"}

\* One external tool run: installed or not, how it ended, what it wrote.
Outcomes ==
    {[avail |-> FALSE, run |-> "none", writes |-> "nothing"]}
    \cup {[avail |-> TRUE, run |-> r, writes |-> w] : r \in RunKinds, w \in WriteKinds}
    \cup {[avail |-> TRUE, run |-> "exception", writes |-> "nothing"]}

\* Ghostscript stage in front of pdf2svg: gs is how the first stage ended.
GsKinds == {"missing", "nonzero", "empty_pdf", "timeout", "exception", "ok"}

GsOutcomes ==
    {[gs |-> g, avail |-> FALSE, run |-> "none", writes |-> "nothing"] : g \in GsKinds}
    \cup {[gs |-> g, avail |-> TRUE, run |-> "none", writes |-> "nothing"] :
            g \in GsKinds \ {"ok"}}
    \cup {[gs |-> "ok", avail |-> TRUE, run |-> r, writes |-> w] :
            r \in RunKinds, w \in WriteKinds}
    \cup {[gs |-> "ok", avail |-> TRUE, run |-> "exception", writes |-> "nothing"]}

\* validate_svg_output: the file exists, is not empty and holds '<svg'.
validate_svg_output(f) ==
    /\ f.kind # "absent"
    /\ f.kind # "empty"
    /\ f.kind = "svg"

\* What the process leaves at the output path.
WriteEffect(f, name, w) ==
    IF w = "nothing" THEN f ELSE [kind |-> w, by |-> name]

Failure(name, reason, f) == [ok |-> FALSE, err |-> <<name, reason>>, file |-> f]

\* subprocess.run(...) followed by the return-code and output checks that
\* try_inkscape, try_uniconvertor and the pdf2svg stage share.
RunTool(name, o, f) ==
    LET f2 == WriteEffect(f, name, o.writes) IN
    CASE o.run = "timeout" -> Failure(name, "timed out (60s)", f2)
      [] o.run = "exception" -> Failure(name, "error", f2)
      [] o.run = "nonzero" -> Failure(name, "failed (exit)", f2)
      [] OTHER ->
            IF ~validate_svg_output(f2)
            THEN Failure(name, "produced invalid/empty output", f2)
            ELSE [ok |-> TRUE, err |-> <<>>, file |-> f2]

try_inkscape(o, f) ==
    IF ~o.avail THEN Failure("Inkscape", "not installed", f)
    ELSE RunTool("Inkscape", o, f)

try_uniconvertor(o, f) ==
    IF ~o.avail THEN Failure("UniConvertor", "not installed", f)
    ELSE RunTool("UniConvertor", o, f)

try_ghostscript_pdf2svg(o, f) ==
    CASE o.gs = "missing" -> Failure("Ghostscript", "not installed", f)
      [] ~o.avail -> Failure("pdf2svg", "not installed", f)
      [] o.gs = "nonzero" -> Failure("Ghostscript", "failed (exit)", f)
      [] o.gs = "empty_pdf" -> Failure("Ghostscript", "produced empty PDF", f)
      [] o.gs = "timeout" -> Failure("Ghostscript+pdf2svg", "timed out (60s)", f)
      [] o.gs = "exception" -> Failure("Ghostscript+pdf2svg", "error", f)
      [] OTHER -> RunTool("Ghostscript+pdf2svg", o, f)

\* A variant of ConvertStep that reports failure as soon as one converter
\* has failed.
ConvertStepGivesUp(name, r, att, nextPc) ==
    LET att2 == Append(att, [name |-> name, ok |-> r.ok, err |-> r.err]) IN
    IF r.ok
    THEN [pc |-> "done", attempts |-> att2,
          result |-> [success |-> TRUE, message |-> <<"Converted using", name>>,
                      attempts |-> att2]]
    ELSE [pc |-> "done", attempts |-> att2,
          result |-> [success |-> FALSE, message |-> <<"All converters failed", att2>>,
                      attempts |-> att2]]

\* The bookkeeping convert_ai_to_svg_multi does after one try_* call:
\* append to attempts, return on success, otherwise go on to nextPc
\* ("done" after the last converter: all converters failed).
ConvertStep(name, r, att, nextPc) ==
    LET att2 == Append(att, [name |-> name, ok |-> r.ok, err |-> r.err]) IN
    IF r.ok
    THEN [pc |-> "done", attempts |-> att2,
          result |-> [success |-> TRUE, message |-> <<"Converted using", name>>,
                      attempts |-> att2]]
    ELSE IF nextPc = "done"
    THEN [pc |-> "done", attempts |-> att2,
          result |-> [success |-> FALSE, message |-> <<"All converters failed", att2>>,
                      attempts |-> att2]]
    ELSE [pc |-> nextPc, attempts |-> att2, result |-> NoResult]

\* The early return of convert_ai_to_svg_multi for a missing input file.
ConvertEntry(exists) ==
    IF ~exists
    THEN [pc |-> "done", attempts |-> <<>>,
          result |-> [success |-> FALSE, message |-> <<"File not found">>,
                      attempts |-> <<>>]]
    ELSE [pc |-> "inkscape", attempts |-> <<>>, result |-> NoResult]

----
\* convert_ai_to_svg_multi, statement by statement.
ConvInit ==
    /\ cpc = "start"
    /\ cExists \in BOOLEAN
    /\ outFile \in {AbsentFile, EmptyFile}
    /\ attempts = <<>>
    /\ cResult = NoResult
    /\ PipeIdle
    /\ LayersIdle

ConvApply(st, f) ==
    /\ cpc' = st.pc
    /\ attempts' = st.attempts
    /\ cResult' = st.result
    /\ outFile' = f
    /\ UNCHANGED <<cExists, pipeVars, layerVars>>

CStart ==
    /\ cpc = "start"
    /\ ConvApply(ConvertEntry(cExists), outFile)

CTryInkscape ==
    /\ cpc = "inkscape"
    /\ \E o \in Outcomes :
         LET r == try_inkscape(o, outFile) IN
         ConvApply(ConvertStep("Inkscape", r, attempts, "uniconvertor"), r.file)

CTryUniConvertor ==
    /\ cpc = "uniconvertor"
    /\ \E o \in Outcomes :
         LET r == try_uniconvertor(o, outFile) IN
         ConvApply(ConvertStep("UniConvertor", r, attempts, "ghostscript"), r.file)

CTryGhostscript ==
    /\ cpc = "ghostscript"
    /\ \E o \in GsOutcomes :
         LET r == try_ghostscript_pdf2svg(o, outFile) IN
         ConvApply(ConvertStep("Ghostscript+pdf2svg", r, attempts, "done"), r.file)

ConvNext == CStart \/ CTryInkscape \/ CTryUniConvertor \/ CTryGhostscript

SpecConv == ConvInit /\ [][ConvNext]_vars

(***************************************************************************)
(* Input documents.  A PathInfo (core.py) carries the attributes the       *)
(* analysis reads.  Every shape of the model is an axis-aligned rectangle  *)
(* (a circle: the square around it), so a path's polygon is its bbox.      *)
(*   bbox, circle_diameter, length : cpt        area : whole pt^2          *)
(*   circle_diameter = 0 stands for None, layer_name = "" for None.        *)
(***************************************************************************)
MaxLetters == 2

MaxMount == 2

\* n points in cpt.
Pt(n) == n * 100

LetterW == Pt(50)

LetterH == Pt(70)

LetterPitch == Pt(70)

\* File diameters (cpt) of a wire hole and of a mounting hole at 10% scale.
WireDiam == 275

MountDiam == 108

Outline(id, layer, x0, y0, x1, y1, d) ==
    [path_id |-> id, layer_name |-> layer, is_closed |-> TRUE, is_circle |-> FALSE,
     circle_diameter |-> 0, bbox |-> <<x0, y0, x1, y1>>,
     area |-> ((x1 - x0) * (y1 - y0)) \div 10000,
     length |-> 2 * ((x1 - x0) + (y1 - y0)),
     has_polygon |-> TRUE, d |-> d, original_bbox |-> <<>>, transform_chain |-> <<>>,
     num_holes |-> 0, stroke |-> "#000000", fill |-> "none"]

Circle(id, layer, cx, cy, diam) ==
    [path_id |-> id, layer_name |-> layer, is_closed |-> TRUE, is_circle |-> TRUE,
     circle_diameter |-> diam,
     bbox |-> <<cx - diam \div 2, cy - diam \div 2,
                cx - diam \div 2 + diam, cy - diam \div 2 + diam>>,
     area |-> (diam * diam * 785) \div 10000000,
     length |-> (diam * 314) \div 100,
     has_polygon |-> TRUE, d |-> id, original_bbox |-> <<>>, transform_chain |-> <<>>,
     num_holes |-> 0, stroke |-> "#000000", fill |-> "none"]

OpenPath(id, layer, x0, y0, x1, y1) ==
    [path_id |-> id, layer_name |-> layer, is_closed |-> FALSE, is_circle |-> FALSE,
     circle_diameter |-> 0, bbox |-> <<x0, y0, x1, y1>>, area |-> 0,
     length |-> (x1 - x0) + (y1 - y0), has_polygon |-> FALSE, d |-> id,
     original_bbox |-> <<>>, transform_chain |-> <<>>,
     num_holes |-> 0, stroke |-> "#000000", fill |-> "none"]

\* One transform of a chain as the document writes it: its type and its
\* values, still text.
Translate(tx, ty) == [type |-> "translate", values |-> <<tx, ty>>]

Scale(sx) == [type |-> "scale", values |-> <<sx>>]

\* Path q under a group that carries the transforms of chain.
Transformed(q, chain) == [q EXCEPT !.transform_chain = chain]

\* Per-side growth (cpt) of the trim outline over its return outline.
TrimKinds == {"none", "zero", "under", "min", "mid", "max", "over", "negative", "far"}

TrimGrow(kind) ==
    CASE kind = "zero" -> 0
      [] kind = "under" -> 35
      [] kind = "min" -> 36
      [] kind = "mid" -> 100
      [] kind = "max" -> 170
      [] kind = "over" -> 171
      [] kind = "negative" -> -10
      [] OTHER -> 36

TrimShift(kind) == IF kind = "far" THEN 1500 ELSE 0

\* The paths of letter k (1-based): outline, wire hole, mounting holes on the
\* return layer and the trim outline on the trim layer.  Ids: 10k + j.
LetterPaths(k, p) ==
    LET x0 == (k - 1) * LetterPitch
        g == TrimGrow(p.trim)
        sh == TrimShift(p.trim)
    IN  <<Outline(10 * k, "return", x0, 0, x0 + LetterW, LetterH, 10 * k)>>
        \o (IF p.wire THEN <<Circle(10 * k + 1, "return", x0 + 1500, 2000, WireDiam)>>
            ELSE <<>>)
        \o [j \in 1..p.nMount |->
              Circle(10 * k + 1 + j, "return", x0 + 1000 + 1500 * (j - 1), 5000, MountDiam)]
        \o (IF p.trim = "none" THEN <<>>
            ELSE <<Outline(10 * k + 9, "trimcap", x0 - g + sh, 0 - g,
                           x0 + LetterW + g + sh, LetterH + g, 10 * k + 9)>>)

ExtraKinds == {"none", "open", "dup", "defs", "default_layer", "separator", "face",
               "exact", "engraved", "dot", "shifted", "bad_transform", "dot_inside",
               "phantom"}

ExtraPaths(p) ==
    CASE p.extra = "open" -> <<OpenPath(5, "return", 100, 7500, 1500, 8200)>>
      [] p.extra = "dup" -> <<Outline(6, "return", 0, 0, LetterW, LetterH, 10)>>
      [] p.extra = "defs" -> <<Circle(7, "_defs_", 200, 200, MountDiam)>>
      [] p.extra = "default_layer" -> <<Outline(8, "Layer 1", 0, 8000, 3000, 9000, 8)>>
      [] p.extra = "separator" -> <<Outline(4, "---", 0, 8000, 3000, 9000, 4)>>
      [] p.extra = "face" -> <<Outline(2, "face", 0 - 50, 0 - 50, LetterW + 50, LetterH + 50, 2)>>
      \* a circle of 0.72 pt (0.1 in at 10% scale) inside the first letter
      [] p.extra = "exact" -> <<Circle(1, "return", 2500, 6000, 72)>>
      \* a face letter with an inner outline inset by 0.11 pt on every side
      [] p.extra = "engraved" ->
            <<Outline(2, "face", 0, 0, LetterW, LetterH, 2),
              Outline(9, "face", 11, 11, LetterW - 11, LetterH - 11, 9)>>
      \* a circle of 6 pt beside the first letter: too large for a hole
      [] p.extra = "dot" -> <<Circle(91, "return", 6000, 3000, 600)>>
      \* the same circle inside the first letter
      [] p.extra = "dot_inside" -> <<Circle(94, "return", 2500, 5000, 600)>>
      \* a circle of wire-hole size beside the first letter
      [] p.extra = "wire_orphan" -> <<Circle(96, "return", 6000, 3000, WireDiam)>>
      \* an outline over the first letter, 0.01 pt narrower
      [] p.extra = "phantom" -> <<Outline(95, "return", 1, 0, LetterW, LetterH, 95)>>
      \* an outline in a group with transform="translate(10,0)"
      [] p.extra = "shifted" ->
            <<Transformed(Outline(92, "return", 6000, 0, 8000, 2000, 92),
                          <<Translate("10", "0")>>)>>
      \* the same in a group with transform="translate(10px,0)"
      [] p.extra = "bad_transform" ->
            <<Transformed(Outline(93, "return", 6000, 0, 8000, 2000, 93),
                          <<Translate("10px", "0")>>)>>
      [] OTHER -> <<>>

\* An orphan circle: on the return layer, in the gap right of letter 1.
OrphanPaths(p) ==
    IF p.orphan THEN <<Circle(3, "return", 6000, 3000, MountDiam)>> ELSE <<>>

Doc(p) ==
    Flatten([k \in 1..p.nRet |-> LetterPaths(k, p)]) \o OrphanPaths(p) \o ExtraPaths(p)

DocParam(n, w, m, t, o, e) ==
    [nRet |-> n, wire |-> w, nMount |-> m, trim |-> t, orphan |-> o, extra |-> e]

\* The family of documents the runs are made on.
DocParams ==
    {DocParam(n, w, m, "min", o, "none") :
        n \in 1..MaxLetters, w \in BOOLEAN, m \in 0..MaxMount, o \in BOOLEAN}
    \cup {DocParam(n, FALSE, 0, t, FALSE, "none") : n \in 1..MaxLetters, t \in TrimKinds}
    \cup {DocParam(1, FALSE, 0, "min", FALSE, e) : e \in ExtraKinds}
    \cup {DocParam(0, FALSE, 0, "none", o, e) : o \in BOOLEAN, e \in {"none", "open", "defs"}}

(***************************************************************************)
(* transforms.py                                                           *)
(***************************************************************************)
\* float(): the texts it converts, in hundredths (cpt for a length); any
\* other text raises ValueError.
FloatValues == ("0" :> 0) @@ ("10" :> 1000) @@ ("2" :> 200)

ValueErrorText == "could not convert string to float: '10px'"

\* parse_transform raises on a value float() refuses.
parse_transform_raises(t) == \E k \in 1..Len(t.values) : t.values[k] \notin DOMAIN FloatValues

parse_transform(t) ==
    [type |-> t.type, values |-> [k \in 1..Len(t.values) |-> FloatValues[t.values[k]]]]

chain_raises(chain) == \E k \in 1..Len(chain) : parse_transform_raises(chain[k])

\* apply_transform_to_point: the transforms are applied last to first; a
\* type it does not know leaves the point as it is.
RECURSIVE apply_transform_to_point(_, _)
apply_transform_to_point(pt, transforms) ==
    IF transforms = <<>> THEN pt
    ELSE LET t == transforms[Len(transforms)]
             rest == SubSeq(transforms, 1, Len(transforms) - 1)
         IN IF t.type = "translate"
            THEN apply_transform_to_point(
                    <<pt[1] + (IF Len(t.values) > 0 THEN t.values[1] ELSE 0),
                      pt[2] + (IF Len(t.values) > 1 THEN t.values[2] ELSE 0)>>, rest)
            ELSE IF t.type = "scale"
            THEN apply_transform_to_point(
                    <<(pt[1] * (IF Len(t.values) > 0 THEN t.values[1] ELSE 100)) \div 100,
                      (pt[2] * (IF Len(t.values) > 1 THEN t.values[2]
                                ELSE IF Len(t.values) > 0 THEN t.values[1] ELSE 100))
                         \div 100>>, rest)
            ELSE apply_transform_to_point(pt, rest)

\* apply_transform_to_bbox: the bbox of the four transformed corners.
apply_transform_to_bbox(bbox, chain) ==
    IF chain = <<>> THEN bbox
    ELSE LET all_transforms == [k \in 1..Len(chain) |-> parse_transform(chain[k])]
             lo == apply_transform_to_point(<<bbox[1], bbox[2]>>, all_transforms)
             hi == apply_transform_to_point(<<bbox[3], bbox[4]>>, all_transforms)
         IN <<IF lo[1] < hi[1] THEN lo[1] ELSE hi[1], IF lo[2] < hi[2] THEN lo[2] ELSE hi[2],
              IF lo[1] < hi[1] THEN hi[1] ELSE lo[1], IF lo[2] < hi[2] THEN hi[2] ELSE lo[2]>>

(***************************************************************************)
(* geometry.py                                                             *)
(***************************************************************************)
\* get_centroid, doubled to stay in the integers: (xmin + xmax, ymin + ymax).
get_centroid2(b) == <<b[1] + b[3], b[2] + b[4]>>

bbox_contains(outer, inner, tol) ==
    /\ inner[1] >= outer[1] - tol
    /\ inner[2] >= outer[2] - tol
    /\ inner[3] <= outer[3] + tol
    /\ inner[4] <= outer[4] + tol

\* polygon_contains on rectangle polygons: bbox pre-check, then the inner
\* centroid strictly inside the outer polygon, then the outer polygon
\* buffered by the tolerance containing the inner one.
polygon_contains(outer, inner, tol) ==
    LET c == get_centroid2(inner) IN
    /\ ~(\/ inner[3] < outer[1] - tol
         \/ inner[1] > outer[3] + tol
         \/ inner[4] < outer[2] - tol
         \/ inner[2] > outer[4] + tol)
    /\ \/ /\ 2 * outer[1] < c[1]
          /\ c[1] < 2 * outer[3]
          /\ 2 * outer[2] < c[2]
          /\ c[2] < 2 * outer[4]
       \/ bbox_contains(outer, inner, tol)

\* point_in_polygon with a tolerance buffer, the point given doubled.
point_in_polygon2(poly, c, tol) ==
    /\ 2 * (poly[1] - tol) <= c[1]
    /\ c[1] <= 2 * (poly[3] + tol)
    /\ 2 * (poly[2] - tol) <= c[2]
    /\ c[2] <= 2 * (poly[4] + tol)

(***************************************************************************)
(* core.py: HoleInfo and LetterGroup.                                      *)
(***************************************************************************)
\* The fields of the HoleInfo dataclass: the keywords its constructor takes.
HoleInfoFields ==
    {"path_id", "hole_type", "diameter_mm", "center", "svg_path_data", "transform",
     "diameter_real_mm", "fill", "stroke", "matched_name", "matched_size_id",
     "layer_name", "raw_bbox"}

\* HoleInfo(**kw): a dataclass constructor raises TypeError on a keyword
\* that is no field.
HoleInfoRaises(kw) == ~(kw \subseteq HoleInfoFields)

TypeErrorText == "HoleInfo.__init__() got an unexpected keyword argument 'bbox'"

wire_holes(holes) == SeqFilter(holes, LAMBDA h : h.hole_type = "wire")

mounting_holes(holes) == SeqFilter(holes, LAMBDA h : h.hole_type = "mounting")

unknown_holes(holes) ==
    SeqFilter(holes, LAMBDA h : h.hole_type \in {"unknown", "unclassified"})

(***************************************************************************)
(* letter_analysis.py                                                      *)
(***************************************************************************)
\* str.lower() on the layer names the documents use.
Lower(name) ==
    CASE name = "Layer 1" -> "layer 1"
      [] name = "Return" -> "return"
      [] OTHER -> name

\* 72 * scale, in tenths of a point per real inch.
PointsPerInch10(scale) ==
    CASE scale = "0.1" -> 72
      [] scale = "1.0" -> 720
      [] OTHER -> 10          \* 1/72: SVG drawn in inches

\* Tolerances of GEOMETRY_CONFIG, in cpt and in thousandths.
containment_tolerance == 50

phantom_duplicate_tolerance == 1

\* max_hole_mm, in um.
max_hole_mm == 16000

\* The keywords create_hole_info passes to HoleInfo.
create_hole_info_kwargs ==
    {"path_id", "hole_type", "diameter_mm", "center", "svg_path_data", "transform",
     "diameter_real_mm", "fill", "stroke", "layer_name", "raw_bbox", "bbox"}

\* create_hole_info: the HoleInfo it asks for (built when the constructor
\* accepts the keywords).  diameter_real_mm = num / den um, kept exact.
create_hole_info(path, ppi10) ==
    LET raw == IF path.original_bbox # <<>> THEN path.original_bbox ELSE path.bbox IN
    [path_id |-> path.path_id,
     hole_type |-> "unclassified",
     diameter_mm |-> path.circle_diameter,
     center |-> get_centroid2(raw),
     diameter_real_mm |-> [num |-> path.circle_diameter * 2540, den |-> ppi10],
     matched_name |-> "",
     layer_name |-> path.layer_name,
     raw_bbox |-> raw]

create_hole_info_raises == HoleInfoRaises(create_hole_info_kwargs)

\* min_hole_percent, in hundredths.
min_hole_percent == 2

SetMax(S) == CHOOSE x \in S : \A y \in S : y <= x

SetMin(S) == CHOOSE x \in S : \A y \in S : x <= y

\* Distinct lower-cased layer names in order of first appearance: the key
\* order of the layer_groups dict.
RECURSIVE LayerOrderFrom(_, _, _)
LayerOrderFrom(ps, i, seen) ==
    IF i > Len(ps) THEN <<>>
    ELSE LET key == Lower(ps[i].layer_name) IN
         IF key \in seen THEN LayerOrderFrom(ps, i + 1, seen)
         ELSE <<key>> \o LayerOrderFrom(ps, i + 1, seen \cup {key})

LayerOrder(ps) == LayerOrderFrom(ps, 1, {})

\* The loop that stores original_bbox and moves every path with a transform
\* chain to global coordinates, for the first n paths.
StoreOriginalsUpTo(paths, n) ==
    [i \in 1..Len(paths) |->
       IF i <= n
       THEN [paths[i] EXCEPT !.original_bbox = paths[i].bbox,
                             !.bbox = apply_transform_to_bbox(paths[i].bbox,
                                                              paths[i].transform_chain)]
       ELSE paths[i]]

StoreOriginals(paths) == StoreOriginalsUpTo(paths, Len(paths))

\* The first path whose transform chain makes the loop raise (0: none).
FirstBadTransform(paths) ==
    IF \E i \in 1..Len(paths) : chain_raises(paths[i].transform_chain)
    THEN SetMin({i \in 1..Len(paths) : chain_raises(paths[i].transform_chain)})
    ELSE 0

\* The paths as the loop leaves them when path k makes it raise: the paths
\* before k are moved, path k has its originals stored and nothing else.
StoreOriginalsRaising(paths, k) ==
    [i \in 1..Len(paths) |->
       IF i = k THEN [paths[i] EXCEPT !.original_bbox = paths[i].bbox]
       ELSE StoreOriginalsUpTo(paths, k - 1)[i]]

\* A circle's real diameter is within s's tolerance of s's diameter.
MatchesStandardSize(diam, ppi10, s) ==
    Abs(diam * 2540 - s.diameter_mm * ppi10) <= s.tolerance_mm * ppi10

\* The tiny-circle filter: circles below min_hole_percent of the document's
\* largest extent lose is_circle unless they match a standard hole size.
StripTinyCircles(paths, standard_sizes, ppi10) ==
    IF paths = <<>> THEN paths
    ELSE
    LET svg_width == SetMax({paths[i].bbox[3] : i \in 1..Len(paths)})
                     - SetMin({paths[i].bbox[1] : i \in 1..Len(paths)})
        svg_height == SetMax({paths[i].bbox[4] : i \in 1..Len(paths)})
                      - SetMin({paths[i].bbox[2] : i \in 1..Len(paths)})
        extent == Max2(svg_width, svg_height)
        Tiny(q) == ((q.bbox[3] - q.bbox[1]) + (q.bbox[4] - q.bbox[2])) * 100
                     < 2 * extent * min_hole_percent
        Keeps(q) == /\ standard_sizes # <<>>
                    /\ q.circle_diameter # 0
                    /\ \E k \in 1..Len(standard_sizes) :
                          MatchesStandardSize(q.circle_diameter, ppi10, standard_sizes[k])
    IN [i \in 1..Len(paths) |->
          IF paths[i].is_circle /\ Tiny(paths[i]) /\ ~Keeps(paths[i])
          THEN [paths[i] EXCEPT !.is_circle = FALSE]
          ELSE paths[i]]

\* Circles of more than max_hole_mm real diameter are letter shapes.
ReclassifyLargeCircles(paths, ppi10) ==
    [i \in 1..Len(paths) |->
       IF /\ paths[i].is_circle
          /\ paths[i].circle_diameter # 0
          /\ paths[i].circle_diameter * 2540 > max_hole_mm * ppi10
       THEN [paths[i] EXCEPT !.is_circle = FALSE]
       ELSE paths[i]]

IsLetterCandidate(q) == q.is_closed /\ q.has_polygon /\ ~q.is_circle

\* The containment test of identify_letters for one candidate.
IsContained(path, layer_candidates) ==
    \E j \in 1..Len(layer_candidates) :
        LET other == layer_candidates[j] IN
        /\ other.path_id # path.path_id
        /\ ~(other.area > 0 /\ path.area > 0 /\ other.area < path.area)
        /\ polygon_contains(other.bbox, path.bbox, containment_tolerance)

identify_letters(paths) ==
    LET candidates == SeqFilter(paths, IsLetterCandidate)
        order == LayerOrder(candidates)
        InLayer(key) == SeqFilter(candidates, LAMBDA q : Lower(q.layer_name) = key)
    IN Flatten([k \in 1..Len(order) |->
                  SeqFilter(InLayer(order[k]),
                            LAMBDA q : ~IsContained(q, InLayer(order[k])))])

path_is_inside_letter(hole, letter, tol) ==
    IF hole.has_polygon
    THEN polygon_contains(letter.bbox, hole.bbox, tol)
    ELSE point_in_polygon2(letter.bbox, get_centroid2(hole.bbox), tol)

find_paths_inside_letter(letter, all_paths, tol) ==
    SeqFilter(all_paths,
              LAMBDA q : /\ q.path_id # letter.path_id
                         /\ Lower(q.layer_name) = Lower(letter.layer_name)
                         /\ path_is_inside_letter(q, letter, tol))

\* Phantom duplicate: inner area within the ratio band around the letter's.
IsPhantomDuplicate(inner, letter) ==
    /\ letter.area > 0
    /\ inner.area > 0
    /\ (1000 - phantom_duplicate_tolerance) * letter.area <= 1000 * inner.area
    /\ 1000 * inner.area <= (1000 + phantom_duplicate_tolerance) * letter.area

HolePaths(letter, inner_paths) ==
    SeqFilter(inner_paths, LAMBDA q : ~IsPhantomDuplicate(q, letter))

build_letter_group(letter, inner_paths, ppi10) ==
    LET hp == HolePaths(letter, inner_paths) IN
    [letter_id |-> letter.path_id,
     main_path |-> letter,
     holes |-> [i \in 1..Len(hp) |-> create_hole_info(hp[i], ppi10)],
     layer_name |-> letter.layer_name,
     bbox |-> letter.bbox,
     raw_bbox |-> letter.original_bbox,
     issues |-> <<>>]

EmptyAnalysis ==
    [letter_groups |-> <<>>, orphan_holes |-> <<>>, unprocessed_paths |-> <<>>,
     detected_scale |-> "0.1", issues |-> <<>>, path_accounting |-> <<>>]

UnprocessedReason(q) ==
    IF q.layer_name = "_defs_" THEN "defs_path"
    ELSE IF ~q.is_closed THEN "open_path"
    ELSE "unclassified"

\* The circle filters in front of the letter search.
PrepareCircles(paths, cfg) ==
    ReclassifyLargeCircles(
        StripTinyCircles(StoreOriginals(paths), cfg.standard_hole_sizes,
                         PointsPerInch10(cfg.file_scale)),
        PointsPerInch10(cfg.file_scale))

InnerPaths(letters, p3) ==
    [k \in 1..Len(letters) |-> find_paths_inside_letter(letters[k], p3, containment_tolerance)]

\* assigned_path_ids once every letter group is built.
AssignedIds(letters, inner) ==
    {letters[k].path_id : k \in 1..Len(letters)}
    \cup UNION {{inner[k][i].path_id : i \in 1..Len(inner[k])} : k \in 1..Len(letters)}

\* The circles that become orphan holes.
OrphanCircles(p3, letters, assigned) ==
    IF letters = <<>>
    THEN SeqFilter(p3, LAMBDA q : q.is_circle)
    ELSE SeqFilter(p3, LAMBDA q : q.is_circle /\ q.path_id \notin assigned)

Unprocessed(p3, assigned) ==
    LET rest == SeqFilter(p3, LAMBDA q : q.path_id \notin assigned /\ ~q.is_circle) IN
    [i \in 1..Len(rest) |->
       [path_id |-> rest[i].path_id, reason |-> UnprocessedReason(rest[i])]]

HoleCount(groups) == Len(Flatten([k \in 1..Len(groups) |-> groups[k].holes]))

\* What the call gives: the paths as it leaves them (it writes to them in
\* place), whether it raised (a create_hole_info call was made and the
\* constructor refused it), and the LetterAnalysisResult returned otherwise.
AnalysisOutcome(total, scale, p3, groups, orphans, unprocessed) ==
    [paths |-> p3,
     raised |-> (HoleCount(groups) + Len(orphans) > 0 /\ create_hole_info_raises),
     analysis |->
        IF groups = <<>>
        THEN [letter_groups |-> <<>>, orphan_holes |-> orphans,
              unprocessed_paths |-> <<>>, detected_scale |-> scale,
              issues |-> <<>>, path_accounting |-> <<>>]
        ELSE [letter_groups |-> groups, orphan_holes |-> orphans,
              unprocessed_paths |-> unprocessed, detected_scale |-> scale,
              issues |-> <<>>,
              path_accounting |->
                 [letters |-> Len(groups), holes_in_letters |-> HoleCount(groups),
                  orphan_holes |-> Len(orphans),
                  open_paths |-> Count(unprocessed, LAMBDA u : u.reason = "open_path"),
                  defs_paths |-> Count(unprocessed, LAMBDA u : u.reason = "defs_path"),
                  off_layer |-> 0,
                  unclassified |-> Count(unprocessed, LAMBDA u : u.reason = "unclassified"),
                  total |-> total]]]

AnalyzeAssigned(total, cfg, p3, letters, inner, assigned) ==
    AnalysisOutcome(
        total, cfg.file_scale, p3,
        [k \in 1..Len(letters) |->
           build_letter_group(letters[k], inner[k], PointsPerInch10(cfg.file_scale))],
        [i \in 1..Len(OrphanCircles(p3, letters, assigned)) |->
           create_hole_info(OrphanCircles(p3, letters, assigned)[i],
                            PointsPerInch10(cfg.file_scale))],
        Unprocessed(p3, assigned))

AnalyzeInner(total, cfg, p3, letters, inner) ==
    AnalyzeAssigned(total, cfg, p3, letters, inner, AssignedIds(letters, inner))

AnalyzeLetters(total, cfg, p3, letters) ==
    AnalyzeInner(total, cfg, p3, letters, InnerPaths(letters, p3))

AnalyzePrepared(total, cfg, p3) == AnalyzeLetters(total, cfg, p3, identify_letters(p3))

\* analyze_letter_hole_associations(paths_info, layer_name=None, config).
analyze_letter_hole_associations(paths, cfg) ==
    AnalyzePrepared(Len(paths), cfg, PrepareCircles(paths, cfg))

(***************************************************************************)
(* __init__.py: _classify_holes_from_standards                             *)
(***************************************************************************)
\* |real diameter - nominal| * den, and the tolerance on the same scale.
HoleDist(hole, std) == Abs(hole.diameter_real_mm.num - std.diameter_mm * hole.diameter_real_mm.den)

WithinTolerance(hole, std) == HoleDist(hole, std) <= std.tolerance_mm * hole.diameter_real_mm.den

\* The scan of classify_one from entry k on: best is 0 (no match yet) or the
\* index of the best match so far.
RECURSIVE BestMatchFrom(_, _, _, _)
BestMatchFrom(hole, sizes, k, best) ==
    IF k > Len(sizes) THEN best
    ELSE IF /\ WithinTolerance(hole, sizes[k])
            /\ (best = 0 \/ HoleDist(hole, sizes[k]) < HoleDist(hole, sizes[best]))
         THEN BestMatchFrom(hole, sizes, k + 1, k)
         ELSE BestMatchFrom(hole, sizes, k + 1, best)

\* A variant of classify_one that leaves a hole no size matches as it is.
classify_one_keeps_unmatched(hole, sizes) ==
    IF hole.hole_type # "unclassified" \/ hole.diameter_real_mm.num <= 0
    THEN hole
    ELSE IF BestMatchFrom(hole, sizes, 1, 0) # 0
         THEN [hole EXCEPT !.hole_type = sizes[BestMatchFrom(hole, sizes, 1, 0)].category,
                           !.matched_name = sizes[BestMatchFrom(hole, sizes, 1, 0)].name]
         ELSE hole

\* A variant of classify_one that takes the first size within tolerance.
classify_one_first_match(hole, sizes) ==
    IF hole.hole_type # "unclassified" \/ hole.diameter_real_mm.num <= 0
    THEN hole
    ELSE IF \E k \in 1..Len(sizes) : WithinTolerance(hole, sizes[k])
         THEN LET b == CHOOSE k \in 1..Len(sizes) :
                          /\ WithinTolerance(hole, sizes[k])
                          /\ \A j \in 1..(k - 1) : ~WithinTolerance(hole, sizes[j])
              IN [hole EXCEPT !.hole_type = sizes[b].category,
                              !.matched_name = sizes[b].name]
         ELSE [hole EXCEPT !.hole_type = "unknown"]

\* A variant of classify_one without the guard on the diameter.
classify_one_any_diameter(hole, sizes) ==
    IF hole.hole_type # "unclassified"
    THEN hole
    ELSE IF BestMatchFrom(hole, sizes, 1, 0) # 0
         THEN [hole EXCEPT !.hole_type = sizes[BestMatchFrom(hole, sizes, 1, 0)].category,
                           !.matched_name = sizes[BestMatchFrom(hole, sizes, 1, 0)].name]
         ELSE [hole EXCEPT !.hole_type = "unknown"]

classify_one(hole, sizes) ==
    IF hole.hole_type # "unclassified" \/ hole.diameter_real_mm.num <= 0
    THEN hole
    ELSE LET b == BestMatchFrom(hole, sizes, 1, 0) IN
         IF b # 0
         THEN [hole EXCEPT !.hole_type = sizes[b].category,
                           !.matched_name = sizes[b].name]
         ELSE [hole EXCEPT !.hole_type = "unknown"]

classify_holes_from_standards(analysis, sizes) ==
    IF sizes = <<>> THEN analysis
    ELSE [analysis EXCEPT
            !.letter_groups =
                [k \in 1..Len(analysis.letter_groups) |->
                   [analysis.letter_groups[k] EXCEPT
                      !.holes = [i \in 1..Len(analysis.letter_groups[k].holes) |->
                                   classify_one(analysis.letter_groups[k].holes[i], sizes)]]],
            !.orphan_holes =
                [i \in 1..Len(analysis.orphan_holes) |->
                   classify_one(analysis.orphan_holes[i], sizes)]]

(***************************************************************************)
(* Issues.  A ValidationIssue keeps rule, severity, path_id (0 for None)   *)
(* and the details the claims read.                                        *)
(***************************************************************************)
Issue(rule, severity, path_id, details) ==
    [rule |-> rule, severity |-> severity, path_id |-> path_id, details |-> details]

NoDetails == [none |-> TRUE]

\* list(a_set) / ", ".join(a_set): the members of S in the iteration order
\* of this process, given as a sequence `order` that lists them.
ListOfSet(S, order) == SeqFilter(order, LAMBDA x : x \in S)

\* All orders a set of strings can be iterated in.
Orderings(S) ==
    {f \in [1..Cardinality(S) -> S] : \A i, j \in 1..Cardinality(S) : f[i] = f[j] => i = j}

LayerSet(paths) == {paths[i].layer_name : i \in 1..Len(paths)} \ {""}

(***************************************************************************)
(* rules/front_lit.py: generate_letter_analysis_issues                     *)
(***************************************************************************)
\* The issues of one letter, in the order the function appends them.
LetterIssues(letter, return_layer, expected_mounting_names) ==
    IF Lower(letter.layer_name) # Lower(return_layer) THEN <<>>
    ELSE
    LET wires == wire_holes(letter.holes)
        mounts == mounting_holes(letter.holes)
        unknown == unknown_holes(letter.holes)
        unexpected == IF expected_mounting_names = {} THEN <<>>
                      ELSE SeqFilter(mounts, LAMBDA h : /\ h.matched_name # ""
                                                         /\ h.matched_name \notin expected_mounting_names)
        names == LayerOrderFrom([i \in 1..Len(unexpected) |->
                                   [layer_name |-> unexpected[i].matched_name]], 1, {})
    IN  (IF Len(wires) = 0
         THEN <<Issue("letter_no_wire_hole", "error", letter.letter_id,
                      [layer |-> letter.layer_name, wire |-> Len(wires),
                       mounting |-> Len(mounts), unknown |-> Len(unknown)])>>
         ELSE <<>>)
        \o (IF Len(wires) > 1
            THEN <<Issue("letter_multiple_wire_holes", "warning", letter.letter_id,
                         [wire_hole_count |-> Len(wires)])>>
            ELSE <<>>)
        \o [i \in 1..Len(names) |->
              Issue("unexpected_mounting_type", "warning", letter.letter_id,
                    [unexpected_type |-> names[i]])]
        \o [i \in 1..Len(unknown) |->
              Issue("unknown_hole_size", "info", unknown[i].path_id,
                    [letter_id |-> letter.letter_id])]

\* generate_letter_analysis_issues: the returned list, and the analysis with
\* each issue appended to its letter's issues.
generate_letter_analysis_issues(analysis, return_layer, expected_mounting_names) ==
    LET per == [k \in 1..Len(analysis.letter_groups) |->
                  LetterIssues(analysis.letter_groups[k], return_layer, expected_mounting_names)]
    IN [issues |-> Flatten(per),
        analysis |-> [analysis EXCEPT
                        !.letter_groups =
                           [k \in 1..Len(analysis.letter_groups) |->
                              [analysis.letter_groups[k] EXCEPT !.issues = @ \o per[k]]]]]

(***************************************************************************)
(* rules/legacy_analysis.py                                                *)
(***************************************************************************)
\* Defaults of analyze_letters_in_layer: file diameters and tolerances (cpt).
wire_hole_tolerance == 50

mounting_hole_tolerance == 30

identify_outside_paths(paths, layer_name) ==
    LET layer_paths == SeqFilter(paths, LAMBDA q : /\ q.layer_name # ""
                                                   /\ Lower(q.layer_name) = Lower(layer_name)
                                                   /\ q.is_closed)
        Inside(q) == \E j \in 1..Len(layer_paths) :
                        /\ layer_paths[j].path_id # q.path_id
                        /\ \/ q.is_circle
                           \/ bbox_contains(layer_paths[j].bbox, q.bbox, 100)
    IN SeqFilter(layer_paths, LAMBDA q : ~Inside(q))

\* find_contained_circles: the hole types of the circles in the letter's bbox.
find_contained_circles(letter, paths) ==
    LET cs == SeqFilter(paths, LAMBDA q : /\ q.layer_name # ""
                                          /\ Lower(q.layer_name) = Lower(letter.layer_name)
                                          /\ q.is_circle
                                          /\ q.circle_diameter # 0
                                          /\ q.path_id # letter.path_id
                                          /\ bbox_contains(letter.bbox, q.bbox, 100))
    IN [i \in 1..Len(cs) |->
          IF Abs(cs[i].circle_diameter - WireDiam) <= wire_hole_tolerance THEN "wire"
          ELSE IF Abs(cs[i].circle_diameter - MountDiam) <= mounting_hole_tolerance
               THEN "mounting"
               ELSE "unknown"]

LetterAnalysisOf(id, layer, bbox, raw, area, perimeter, nWire, nMount) ==
    [path_id |-> id, layer |-> layer, bbox |-> bbox,
     centroid |-> get_centroid2(bbox),
     area |-> area, perimeter |-> perimeter,
     wire_hole_count |-> nWire, mounting_hole_count |-> nMount,
     raw_width |-> raw[3] - raw[1], raw_height |-> raw[4] - raw[2]]

LegacyLetter(o, layer_name, contained) ==
    LetterAnalysisOf(o.path_id, layer_name, o.bbox,
                     IF o.original_bbox # <<>> THEN o.original_bbox ELSE o.bbox,
                     o.area, o.length,
                     Count(contained, LAMBDA t : t = "wire"),
                     Count(contained, LAMBDA t : t = "mounting"))

LegacyLetters(outside, paths, layer_name) ==
    [i \in 1..Len(outside) |->
       LegacyLetter(outside[i], layer_name, find_contained_circles(outside[i], paths))]

analyze_letters_in_layer(paths, layer_name) ==
    LegacyLetters(identify_outside_paths(paths, layer_name), paths, layer_name)

convert_letter_groups_to_analysis(analysis, layer_name) ==
    LET gs == SeqFilter(analysis.letter_groups,
                        LAMBDA g : Lower(g.layer_name) = Lower(layer_name))
    IN [i \in 1..Len(gs) |->
          LetterAnalysisOf(gs[i].letter_id, gs[i].layer_name, gs[i].bbox, gs[i].raw_bbox,
                           gs[i].main_path.area, gs[i].main_path.length,
                           Len(wire_holes(gs[i].holes)), Len(mounting_holes(gs[i].holes)))]

\* Squared centroid distance, times four (centroids are kept doubled).
CentroidDist2(a, b) ==
    (a.centroid[1] - b.centroid[1]) * (a.centroid[1] - b.centroid[1])
    + (a.centroid[2] - b.centroid[2]) * (a.centroid[2] - b.centroid[2])

\* The scan of match_trim_to_return for one trim letter: the first return
\* letter at the least distance (0 when there is none).
RECURSIVE NearestFrom(_, _, _, _)
NearestFrom(trim, rets, k, best) ==
    IF k > Len(rets) THEN best
    ELSE IF best = 0 \/ CentroidDist2(trim, rets[k]) < CentroidDist2(trim, rets[best])
         THEN NearestFrom(trim, rets, k + 1, k)
         ELSE NearestFrom(trim, rets, k + 1, best)

match_trim_to_return(trim_letters, return_letters) ==
    [i \in 1..Len(trim_letters) |->
       [trim |-> trim_letters[i],
        match |-> NearestFrom(trim_letters[i], return_letters, 1, 0)]]

(***************************************************************************)
(* rules/front_lit.py: check_trim_cap_spacing, check_front_lit_structure   *)
(* The rule configuration fl holds: return_layer, trim_layer, file_scale,  *)
(* min_mounting_holes, trim_offset_min_mm and trim_offset_max_mm (um),     *)
(* miter_factor, max_match_distance (cpt), min_trim_spacing_inches         *)
(* (thousandths of an inch), expected_mounting_names.                      *)
(***************************************************************************)
\* Python's round() of n / d for n >= 0, d > 0: halves go to the even side.
RoundHalfEven(n, d) ==
    LET q == n \div d
        r == n % d
    IN IF 2 * r < d THEN q
       ELSE IF 2 * r > d THEN q + 1
       ELSE IF q % 2 = 0 THEN q ELSE q + 1

\* Defaults of the two mounting-hole rates: 0.05 per inch of perimeter
\* (in hundredths) and 0.0123 per square inch (in ten-thousandths).
holes_per_inch_perimeter == 5

holes_per_sq_inch_area == 123

\* Gap between two bboxes along an axis on which they are apart, else 0.
AxisGap(a0, a1, b0, b1) == IF b0 > a1 THEN b0 - a1 ELSE IF a0 > b1 THEN a0 - b1 ELSE 0

\* polygon_distance of two letters' polygons, each buffered by
\* trim_offset_max_mm with a mitre join, in cpt * 2540.  The outlines are
\* rectangles apart along one axis, where the mitred buffer is the rectangle
\* grown by the buffer on every side.
BufferedDistance(a, b, max_um, ppi10) ==
    LET gap == Max2(AxisGap(a[1], a[3], b[1], b[3]), AxisGap(a[2], a[4], b[2], b[4]))
    IN Max2(0, gap * 2540 - 2 * max_um * ppi10)

check_trim_cap_spacing(analysis, fl) ==
    LET ppi10 == PointsPerInch10(IF analysis.detected_scale # "" THEN analysis.detected_scale
                                 ELSE fl.file_scale)
        ls == SeqFilter(analysis.letter_groups,
                        LAMBDA g : /\ Lower(g.layer_name) = Lower(fl.return_layer)
                                   /\ g.main_path.has_polygon)
        pairs == Flatten([i \in 1..Len(ls) |->
                    [k \in 1..(Len(ls) - i) |-> <<i, i + k>>]])
        close == SeqFilter(pairs, LAMBDA pr :
                    BufferedDistance(ls[pr[1]].main_path.bbox, ls[pr[2]].main_path.bbox,
                                     fl.trim_offset_max_mm, ppi10) * 10
                    < fl.min_trim_spacing_inches * ppi10 * 254)
    IN IF Len(ls) < 2 THEN <<>>
       ELSE [i \in 1..Len(close) |->
               Issue("front_lit_trim_spacing", "error", 0,
                     [letter_a |-> ls[close[i][1]].letter_id,
                      letter_b |-> ls[close[i][2]].letter_id])]

\* Rule 1 for one return letter.
required_holes(letter, fl, ppi10) ==
    Max2(fl.min_mounting_holes,
         Max2(RoundHalfEven(letter.perimeter * holes_per_inch_perimeter, 1000 * ppi10),
              RoundHalfEven(letter.area * holes_per_sq_inch_area, 100 * ppi10 * ppi10)))

MountingHoleIssues(return_letters, fl, ppi10) ==
    LET short == SeqFilter(return_letters,
                           LAMBDA l : l.mounting_hole_count < required_holes(l, fl, ppi10))
    IN [i \in 1..Len(short) |->
          Issue("front_lit_mounting_holes", "warning", short[i].path_id,
                [actual_holes |-> short[i].mounting_hole_count,
                 required_holes |-> required_holes(short[i], fl, ppi10)])]

\* A variant of TrimOffsetIssue whose upper limit leaves the miter factor out.
TrimOffsetIssueNoMiter(trim, ret, fl, ppi10) ==
    LET dw == trim.raw_width - ret.raw_width
        dh == trim.raw_height - ret.raw_height
        Ok(d) == /\ fl.trim_offset_min_mm * ppi10 <= d * 1270
                 /\ d * 1270 <= fl.trim_offset_max_mm * ppi10
    IN IF CentroidDist2(trim, ret) > 4 * fl.max_match_distance * fl.max_match_distance
       THEN <<Issue("front_lit_trim_offset", "warning", trim.path_id,
                    [trim_path_id |-> trim.path_id, nearest_return |-> ret.path_id])>>
       ELSE IF dw < 0 \/ dh < 0 \/ ~Ok(dw) \/ ~Ok(dh)
       THEN <<Issue("front_lit_trim_offset", "error", trim.path_id,
                    [trim_path_id |-> trim.path_id, return_path_id |-> ret.path_id,
                     width_diff |-> dw, height_diff |-> dh,
                     expected_min_per_side_mm |-> fl.trim_offset_min_mm,
                     expected_max_per_side_mm |-> fl.trim_offset_max_mm,
                     miter_factor |-> fl.miter_factor])>>
       ELSE <<>>

\* Rule 4 for one (trim, nearest return) pair.
TrimOffsetIssue(trim, ret, fl, ppi10) ==
    LET dw == trim.raw_width - ret.raw_width
        dh == trim.raw_height - ret.raw_height
        max_with_miter == fl.trim_offset_max_mm * fl.miter_factor
        \* per-side growth in um is d * 1270 / ppi10
        Ok(d) == /\ fl.trim_offset_min_mm * ppi10 <= d * 1270
                 /\ d * 1270 <= max_with_miter * ppi10
    IN IF CentroidDist2(trim, ret) > 4 * fl.max_match_distance * fl.max_match_distance
       THEN <<Issue("front_lit_trim_offset", "warning", trim.path_id,
                    [trim_path_id |-> trim.path_id, nearest_return |-> ret.path_id])>>
       ELSE IF dw < 0 \/ dh < 0
       THEN <<Issue("front_lit_trim_offset", "error", trim.path_id,
                    [trim_path_id |-> trim.path_id, return_path_id |-> ret.path_id,
                     width_diff |-> dw, height_diff |-> dh])>>
       ELSE IF ~Ok(dw) \/ ~Ok(dh)
       THEN <<Issue("front_lit_trim_offset", "error", trim.path_id,
                    [trim_path_id |-> trim.path_id, return_path_id |-> ret.path_id,
                     width_diff |-> dw, height_diff |-> dh,
                     expected_min_per_side_mm |-> fl.trim_offset_min_mm,
                     expected_max_per_side_mm |-> max_with_miter,
                     miter_factor |-> fl.miter_factor])>>
       ELSE <<>>

TrimOffsetIssues(matches, return_letters, fl, ppi10) ==
    Flatten([i \in 1..Len(matches) |->
               TrimOffsetIssue(matches[i].trim, return_letters[matches[i].match], fl, ppi10)])

\* The letters of a layer, from the letter analysis when it found letter
\* groups, else by the legacy bbox method.
LettersOfLayer(paths, analysis, layer_name) ==
    IF analysis.letter_groups # <<>>
    THEN convert_letter_groups_to_analysis(analysis, layer_name)
    ELSE analyze_letters_in_layer(paths, layer_name)

\* file_scale once the analysis' detected scale has overridden the rule's.
StructureScale(analysis, cfg) ==
    IF analysis.letter_groups # <<>> /\ analysis.detected_scale # ""
    THEN analysis.detected_scale
    ELSE cfg.file_scale

FrontLitIssues(paths, fl, analysis, ord, ppi10, return_letters, trim_letters) ==
    IF return_letters = <<>>
    THEN <<Issue("front_lit_structure", "warning", 0,
                 [available_layers |-> ListOfSet(LayerSet(paths), ord)])>>
    ELSE <<Issue("front_lit_structure", "info", 0,
                 [layer |-> fl.return_layer, count |-> Len(return_letters)])>>
         \o MountingHoleIssues(return_letters, fl, ppi10)
         \o <<Issue("front_lit_structure", "info", 0,
                    [layer |-> fl.trim_layer, count |-> Len(trim_letters)])>>
         \o (IF Len(trim_letters) = 0
             THEN <<Issue("front_lit_trim_missing", "error", 0,
                          [return_count |-> Len(return_letters)])>>
             ELSE IF Len(trim_letters) # Len(return_letters)
             THEN <<Issue("front_lit_trim_count", "error", 0,
                          [trim_count |-> Len(trim_letters),
                           return_count |-> Len(return_letters)])>>
             ELSE <<>>)
         \o TrimOffsetIssues(match_trim_to_return(trim_letters, return_letters),
                             return_letters, fl, ppi10)
         \o (IF analysis.letter_groups # <<>> THEN check_trim_cap_spacing(analysis, fl)
             ELSE <<>>)

\* check_front_lit_structure(paths_info, rules) with rules['_letter_analysis']
\* = analysis (validate_file always supplies it); ord is the iteration
\* order of sets in this process.
check_front_lit_structure(paths, fl, analysis, ord) ==
    FrontLitIssues(paths, fl, analysis, ord,
                   PointsPerInch10(StructureScale(analysis, fl)),
                   LettersOfLayer(paths, analysis, fl.return_layer),
                   LettersOfLayer(paths, analysis, fl.trim_layer))

(***************************************************************************)
(* rules/front_lit_acrylic_face.py.  The configuration ac holds:           *)
(* return_layer, face_layer, file_scale, min_mounting_holes,               *)
(* face_offset_min_mm, engraving_offset_mm, engraving_offset_tolerance_mm  *)
(* (um), max_match_distance (cpt), min_face_spacing_inches (thousandths),  *)
(* expected_mounting_names.                                                *)
(***************************************************************************)
IsEngraving(hole, letter_raw, ac, ppi10) ==
    /\ hole.diameter_mm = 0
    /\ hole.hole_type \in {"unknown", "unclassified"}
    /\ hole.raw_bbox # <<>>
    /\ \A inset \in {hole.raw_bbox[1] - letter_raw[1], hole.raw_bbox[2] - letter_raw[2],
                     letter_raw[3] - hole.raw_bbox[3], letter_raw[4] - hole.raw_bbox[4]} :
          Abs(inset * 2540 - ac.engraving_offset_mm * ppi10)
             <= ac.engraving_offset_tolerance_mm * ppi10

\* classify_engraving_paths: the issue list, and the analysis with the
\* engraving holes reclassified.
classify_engraving_paths(analysis, face_layer, ac) ==
    LET ppi10 == PointsPerInch10(IF analysis.detected_scale # "" THEN analysis.detected_scale
                                 ELSE ac.file_scale)
        Looked(g) == /\ Lower(g.layer_name) = Lower(face_layer)
                     /\ g.raw_bbox # <<>>
                     /\ g.raw_bbox # <<0, 0, 0, 0>>
        NewHoles(g) == [i \in 1..Len(g.holes) |->
                          IF IsEngraving(g.holes[i], g.raw_bbox, ac, ppi10)
                          THEN [g.holes[i] EXCEPT !.hole_type = "engraving",
                                                  !.matched_name = "Engraving Path"]
                          ELSE g.holes[i]]
        missing == SeqFilter(analysis.letter_groups,
                             LAMBDA g : /\ Looked(g)
                                        /\ \A i \in 1..Len(g.holes) :
                                              ~IsEngraving(g.holes[i], g.raw_bbox, ac, ppi10))
    IN [issues |-> [i \in 1..Len(missing) |->
                      Issue("acrylic_face_engraving_missing", "warning", missing[i].letter_id,
                            [layer |-> face_layer, letter_id |-> missing[i].letter_id])],
        analysis |-> [analysis EXCEPT
                        !.letter_groups =
                           [k \in 1..Len(analysis.letter_groups) |->
                              IF Looked(analysis.letter_groups[k])
                              THEN [analysis.letter_groups[k] EXCEPT
                                      !.holes = NewHoles(analysis.letter_groups[k])]
                              ELSE analysis.letter_groups[k]]]]

check_face_spacing(analysis, ac) ==
    LET ppi10 == PointsPerInch10(IF analysis.detected_scale # "" THEN analysis.detected_scale
                                 ELSE ac.file_scale)
        ls == SeqFilter(analysis.letter_groups,
                        LAMBDA g : /\ Lower(g.layer_name) = Lower(ac.return_layer)
                                   /\ g.main_path.has_polygon)
        pairs == Flatten([i \in 1..Len(ls) |->
                    [k \in 1..(Len(ls) - i) |-> <<i, i + k>>]])
        close == SeqFilter(pairs, LAMBDA pr :
                    BufferedDistance(ls[pr[1]].main_path.bbox, ls[pr[2]].main_path.bbox,
                                     ac.face_offset_min_mm, ppi10) * 10
                    < ac.min_face_spacing_inches * ppi10 * 254)
    IN IF Len(ls) < 2 THEN <<>>
       ELSE [i \in 1..Len(close) |->
               Issue("acrylic_face_spacing", "error", 0,
                     [letter_a |-> ls[close[i][1]].letter_id,
                      letter_b |-> ls[close[i][2]].letter_id])]

FaceOffsetIssue(face, ret, ac, ppi10) ==
    LET dw == face.raw_width - ret.raw_width
        dh == face.raw_height - ret.raw_height
        Small(d) == d * 1270 < ac.face_offset_min_mm * ppi10
    IN IF CentroidDist2(face, ret) > 4 * ac.max_match_distance * ac.max_match_distance
       THEN <<Issue("acrylic_face_offset", "warning", face.path_id,
                    [face_path_id |-> face.path_id, nearest_return |-> ret.path_id])>>
       ELSE IF dw < 0 \/ dh < 0 \/ Small(dw) \/ Small(dh)
       THEN <<Issue("acrylic_face_offset", "error", face.path_id,
                    [face_path_id |-> face.path_id, return_path_id |-> ret.path_id,
                     width_diff |-> dw, height_diff |-> dh])>>
       ELSE <<>>

FaceOffsetIssues(matches, return_letters, ac, ppi10) ==
    Flatten([i \in 1..Len(matches) |->
               FaceOffsetIssue(matches[i].trim, return_letters[matches[i].match], ac, ppi10)])

AcrylicMountingIssues(return_letters, ac, ppi10) ==
    LET short == SeqFilter(return_letters,
                           LAMBDA l : l.mounting_hole_count < required_holes(l, ac, ppi10))
    IN [i \in 1..Len(short) |->
          Issue("acrylic_face_mounting_holes", "warning", short[i].path_id,
                [actual_holes |-> short[i].mounting_hole_count,
                 required_holes |-> required_holes(short[i], ac, ppi10)])]

AcrylicIssues(paths, ac, analysis, ord, ppi10, return_letters, face_letters) ==
    IF return_letters = <<>>
    THEN <<Issue("acrylic_face_structure", "warning", 0,
                 [available_layers |-> ListOfSet(LayerSet(paths), ord)])>>
    ELSE <<Issue("acrylic_face_structure", "info", 0,
                 [layer |-> ac.return_layer, count |-> Len(return_letters)])>>
         \o AcrylicMountingIssues(return_letters, ac, ppi10)
         \o <<Issue("acrylic_face_structure", "info", 0,
                    [layer |-> ac.face_layer, count |-> Len(face_letters)])>>
         \o (IF Len(face_letters) = 0
             THEN <<Issue("acrylic_face_missing", "error", 0,
                          [return_count |-> Len(return_letters)])>>
             ELSE IF Len(face_letters) # Len(return_letters)
             THEN <<Issue("acrylic_face_count", "error", 0,
                          [face_count |-> Len(face_letters),
                           return_count |-> Len(return_letters)])>>
             ELSE <<>>)
         \o FaceOffsetIssues(match_trim_to_return(face_letters, return_letters),
                             return_letters, ac, ppi10)
         \o (IF analysis.letter_groups # <<>> THEN check_face_spacing(analysis, ac)
             ELSE <<>>)

check_front_lit_acrylic_face_structure(paths, ac, analysis, ord) ==
    AcrylicIssues(paths, ac, analysis, ord,
                  PointsPerInch10(StructureScale(analysis, ac)),
                  LettersOfLayer(paths, analysis, ac.return_layer),
                  LettersOfLayer(paths, analysis, ac.face_layer))

(***************************************************************************)
(* base_rules.py                                                           *)
(***************************************************************************)
\* check_overlapping_paths: one error per pair (i < j) of paths with the same
\* layer and d attribute whose bboxes agree within the tolerance (0.01 pt),
\* pairs grouped by the first path of their (layer, d) group.
check_overlapping_paths(paths) ==
    LET n == Len(paths)
        Same(i, j) == /\ paths[i].layer_name = paths[j].layer_name
                      /\ paths[i].d = paths[j].d
        First(i) == paths[i].layer_name # "_defs_" /\ \A j \in 1..(i - 1) : ~Same(j, i)
        Group(i) == SeqFilter([j \in 1..n |-> j], LAMBDA j : Same(i, j))
        Pairs(g) == Flatten([a \in 1..Len(g) |-> [k \in 1..(Len(g) - a) |-> <<g[a], g[a + k]>>]])
        Match(pr) == \A c \in 1..4 :
                        Abs(paths[pr[1]].bbox[c] - paths[pr[2]].bbox[c]) < 1
        firsts == SeqFilter([j \in 1..n |-> j], First)
        dups == Flatten([f \in 1..Len(firsts) |->
                           SeqFilter(Pairs(Group(firsts[f])), Match)])
    IN [i \in 1..Len(dups) |->
          Issue("no_duplicate_overlapping", "error", paths[dups[i][1]].path_id,
                [duplicate_of |-> paths[dups[i][2]].path_id])]

\* check_stroke_requirements; sr holds required_color ("" for None) and
\* allow_fill.  No path of the model carries a stroke width.
check_stroke_requirements(paths, sr) ==
    Flatten([i \in 1..Len(paths) |->
       (IF sr.required_color # "" /\ paths[i].stroke # ""
           /\ paths[i].stroke # sr.required_color
        THEN <<Issue("stroke_requirements", "error", paths[i].path_id,
                     [actual_stroke |-> paths[i].stroke])>>
        ELSE <<>>)
       \o (IF ~sr.allow_fill /\ paths[i].fill # "" /\ paths[i].fill # "none"
           THEN <<Issue("stroke_requirements", "error", paths[i].path_id,
                        [actual_fill |-> paths[i].fill])>>
           ELSE <<>>)])

\* check_mounting_holes; mh holds min_holes and min_perimeter_for_holes
\* (inches).  holes_per_sq_inch keeps its default 0.01.
check_mounting_holes(paths, mh) ==
    LET Needed(q) == Max2(mh.min_holes, q.area \div (72 * 72 * 100))
        short == SeqFilter(paths,
                           LAMBDA q : /\ q.is_closed
                                      /\ q.length >= mh.min_perimeter_for_holes * 7200
                                      /\ q.num_holes < Needed(q))
    IN [i \in 1..Len(short) |->
          Issue("structural_mounting_holes", "warning", short[i].path_id,
                [actual_holes |-> short[i].num_holes, suggested_holes |-> Needed(short[i])])]

\* check_path_closure: open paths longer than 10 pt.
check_path_closure(paths) ==
    LET open == SeqFilter(paths, LAMBDA q : ~q.is_closed /\ q.length > 1000)
    IN [i \in 1..Len(open) |->
          Issue("path_closure", "warning", open[i].path_id, [length |-> open[i].length])]

(***************************************************************************)
(* __init__.py: filter_production_paths                                    *)
(***************************************************************************)
\* The layer names of the model's documents with no letter or digit.
HasAlnum(name) == name \notin {"---", ""}

\* _DEFAULT_LAYER_RE on the layer names of the model's documents.
IsDefaultLayer(name) ==
    name \in {"Layer 1", "Layer_1", "Layer_2", "Layer_3", "Layer_4", "Layer_5", "Layer_6"}

filter_production_paths(paths) ==
    LET pass1 == SeqFilter(paths, LAMBDA q :
                    ~(\/ q.layer_name \in {"_no_layer_", "_defs_"}
                      \/ (q.layer_name # "" /\ ~HasAlnum(q.layer_name))))
        has_named_layers == \E name \in LayerSet(pass1) : ~IsDefaultLayer(name)
    IN IF has_named_layers
       THEN SeqFilter(pass1, LAMBDA q : ~(q.layer_name # "" /\ IsDefaultLayer(q.layer_name)))
       ELSE pass1

\* A variant of StatusOf in which a warning fails the file.
StatusOfWarningFails(issues) ==
    IF \E i \in 1..Len(issues) : issues[i].severity \in {"error", "warning"} THEN "failed"
    ELSE "passed"

\* The status validate_file derives from the collected issues.
StatusOf(issues) ==
    IF \E i \in 1..Len(issues) : issues[i].severity = "error" THEN "failed"
    ELSE IF \E i \in 1..Len(issues) : issues[i].severity = "warning" THEN "warning"
    ELSE "passed"

(***************************************************************************)
(* Rule configurations passed to validate_file.                            *)
(***************************************************************************)
\* A standard_hole_sizes table (diameters and tolerances in um).
StdTable ==
    <<[name |-> "LED Wire Hole", category |-> "wire",
       diameter_mm |-> 9700, tolerance_mm |-> 500],
      [name |-> "Mounting Hole", category |-> "mounting",
       diameter_mm |-> 3810, tolerance_mm |-> 300]>>

\* rules.get('letter_hole_analysis', {}) when the key is absent.
NoLha == [file_scale |-> "0.1", standard_hole_sizes |-> <<>>]

StdLha == [file_scale |-> "0.1", standard_hole_sizes |-> StdTable]

FrontLitCfg ==
    [return_layer |-> "return", trim_layer |-> "trimcap", file_scale |-> "0.1",
     min_mounting_holes |-> 2, trim_offset_min_mm |-> 1270, trim_offset_max_mm |-> 1500,
     miter_factor |-> 4, max_match_distance |-> 1000, min_trim_spacing_inches |-> 150,
     expected_mounting_names |-> {}]

AcrylicCfg ==
    [return_layer |-> "return", face_layer |-> "face", file_scale |-> "0.1",
     min_mounting_holes |-> 2, face_offset_min_mm |-> 300, engraving_offset_mm |-> 400,
     engraving_offset_tolerance_mm |-> 150, max_match_distance |-> 1000,
     min_face_spacing_inches |-> 100, expected_mounting_names |-> {}]

StrokeCfg == [required_color |-> "#ff0000", allow_fill |-> FALSE]

MountCfg == [min_holes |-> 2, min_perimeter_for_holes |-> 3]

Rules(names, lha) ==
    [names |-> names, lha |-> lha, fl |-> FrontLitCfg, ac |-> AcrylicCfg,
     sr |-> StrokeCfg, mh |-> MountCfg]

RuleSets ==
    {Rules({}, NoLha),
     Rules({"letter_hole_analysis"}, StdLha),
     Rules({"front_lit_structure"}, NoLha),
     Rules({"front_lit_structure", "letter_hole_analysis"}, StdLha),
     Rules({"front_lit_acrylic_face_structure", "letter_hole_analysis"}, StdLha),
     Rules({"front_lit_structure", "front_lit_acrylic_face_structure",
            "letter_hole_analysis"}, StdLha),
     Rules({"no_duplicate_overlapping", "path_closure"}, NoLha),
     Rules({"stroke_requirements", "structural_mounting_holes"}, NoLha),
     Rules({"front_lit_structure", "letter_hole_analysis", "no_duplicate_overlapping",
            "path_closure"}, StdLha),
     Rules({"halo_lit_structure", "letter_hole_analysis"}, StdLha),
     Rules({"push_thru_structure", "letter_hole_analysis"}, StdLha)}

\* The file handed to validate_file: extension, whether it exists, whether
\* its vector document (for an .ai file: the converted one) parses, and
\* whether an SVG's width is given in inches.
File(ext, exists, wellFormed, inches) ==
    [ext |-> ext, exists |-> exists, wellFormed |-> wellFormed, inches |-> inches]

SvgFiles ==
    {File("svg", TRUE, TRUE, FALSE), File("svg", TRUE, TRUE, TRUE),
     File("svg", TRUE, FALSE, FALSE), File("svg", FALSE, FALSE, FALSE)}

AiFiles ==
    {File("ai", TRUE, TRUE, FALSE), File("ai", TRUE, FALSE, FALSE),
     File("ai", FALSE, FALSE, FALSE)}

\* The documents and rule sets runs on .ai files are made with.
AiDocParams ==
    {DocParam(1, TRUE, 1, "min", FALSE, "none"), DocParam(1, FALSE, 0, "min", FALSE, "none"),
     DocParam(2, FALSE, 0, "zero", FALSE, "none"), DocParam(0, FALSE, 0, "none", FALSE, "open")}

AiRuleSets ==
    {Rules({}, NoLha),
     Rules({"front_lit_structure", "letter_hole_analysis"}, StdLha),
     Rules({"no_duplicate_overlapping", "path_closure"}, NoLha)}

Inputs ==
    {[file |-> f, doc |-> d, rules |-> r] : f \in SvgFiles, d \in DocParams, r \in RuleSets}
    \cup {[file |-> f, doc |-> d, rules |-> r] :
            f \in AiFiles, d \in AiDocParams, r \in AiRuleSets}

(***************************************************************************)
(* svg_parser.py: detect_svg_scale, convert_ai_to_svg, extract_paths       *)
(***************************************************************************)
\* detect_svg_scale: 1/72 for a readable SVG whose width is in inches; every
\* failure to read or parse is caught and gives None ("").
detect_svg_scale(file, exists) ==
    IF exists /\ file.wellFormed /\ file.inches THEN "1/72" ELSE ""

\* convert_ai_to_svg_multi as one call: the three tries in sequence.
convert_ai_to_svg_multi(exists, f, o1, o2, o3) ==
    LET e == ConvertEntry(exists) IN
    IF e.pc = "done" THEN [result |-> e.result, file |-> f]
    ELSE
    LET r1 == try_inkscape(o1, f)
        s1 == ConvertStep("Inkscape", r1, e.attempts, "uniconvertor")
    IN IF s1.pc = "done" THEN [result |-> s1.result, file |-> r1.file]
    ELSE
    LET r2 == try_uniconvertor(o2, r1.file)
        s2 == ConvertStep("UniConvertor", r2, s1.attempts, "ghostscript")
    IN IF s2.pc = "done" THEN [result |-> s2.result, file |-> r2.file]
    ELSE
    LET r3 == try_ghostscript_pdf2svg(o3, r2.file)
        s3 == ConvertStep("Ghostscript+pdf2svg", r3, s2.attempts, "done")
    IN [result |-> s3.result, file |-> r3.file]

\* A variant of convert_ai_to_svg that hands the temporary file on whatever
\* the converters reported.
convert_ai_to_svg_unchecked(exists, o1, o2, o3) ==
    IF ~exists
    THEN [success |-> FALSE, value |-> <<"File not found">>, temp |-> None, left |-> FALSE]
    ELSE [success |-> TRUE, value |-> <<"temp">>, temp |-> "temp", left |-> TRUE]

\* convert_ai_to_svg: (success, svg_path_or_error, temp_file_path) and
\* whether the temporary file is left behind.
convert_ai_to_svg(exists, o1, o2, o3) ==
    IF ~exists
    THEN [success |-> FALSE, value |-> <<"File not found">>, temp |-> None, left |-> FALSE]
    ELSE LET m == convert_ai_to_svg_multi(TRUE, EmptyFile, o1, o2, o3) IN
         IF m.result.success
         THEN [success |-> TRUE, value |-> <<"temp">>, temp |-> "temp", left |-> TRUE]
         ELSE [success |-> FALSE, value |-> m.result.message, temp |-> None, left |-> FALSE]

\* The converter outcomes the validate_file runs are made with.
RunOutcomes ==
    {[avail |-> FALSE, run |-> "none", writes |-> "nothing"],
     [avail |-> TRUE, run |-> "exit0", writes |-> "svg"],
     [avail |-> TRUE, run |-> "exit0", writes |-> "invalid"],
     [avail |-> TRUE, run |-> "timeout", writes |-> "nothing"]}

RunGsOutcomes ==
    {[gs |-> "missing", avail |-> TRUE, run |-> "none", writes |-> "nothing"],
     [gs |-> "ok", avail |-> TRUE, run |-> "exit0", writes |-> "svg"],
     [gs |-> "ok", avail |-> TRUE, run |-> "nonzero", writes |-> "nothing"]}

\* extract_paths_from_svg: the document's paths; a file that cannot be read
\* or parsed raises inside the function's own try block, which prints the
\* error and returns the (empty) list built so far.
extract_paths_from_svg(file, doc, path, files) ==
    IF path \in files /\ file.wellFormed THEN Doc(doc) ELSE <<>>

(***************************************************************************)
(* __init__.py: validate_file                                              *)
(***************************************************************************)
\* The paths_per_layer dict: layers in order of first appearance.
RECURSIVE PathsPerLayerFrom(_, _, _)
PathsPerLayerFrom(paths, i, seen) ==
    IF i > Len(paths) THEN <<>>
    ELSE LET key == IF paths[i].layer_name = "" THEN "_unknown_" ELSE paths[i].layer_name IN
         IF key \in seen THEN PathsPerLayerFrom(paths, i + 1, seen)
         ELSE <<[layer |-> key,
                 count |-> Count(paths, LAMBDA q :
                              (IF q.layer_name = "" THEN "_unknown_" ELSE q.layer_name) = key)]>>
              \o PathsPerLayerFrom(paths, i + 1, seen \cup {key})

CollectStats(paths, ord) ==
    [filled |-> TRUE,
     total_paths |-> Len(paths),
     closed_paths |-> Count(paths, LAMBDA q : q.is_closed),
     total_holes |-> 0,
     layers |-> ListOfSet(LayerSet(paths), ord),
     paths_per_layer |-> PathsPerLayerFrom(paths, 1, {}),
     letter_analysis |-> NoAnalysis]

\* HoleInfo.to_dict: 'unclassified' is shown as 'unknown'.
HoleToDict(h) ==
    [path_id |-> h.path_id,
     hole_type |-> IF h.hole_type = "unclassified" THEN "unknown" ELSE h.hole_type,
     diameter_mm |-> h.diameter_mm, layer_name |-> h.layer_name,
     matched_name |-> h.matched_name]

\* LetterAnalysisResult.to_dict.
to_dict(analysis, ord) ==
    [letters |-> [k \in 1..Len(analysis.letter_groups) |->
                    LET g == analysis.letter_groups[k] IN
                    [letter_id |-> g.letter_id, layer_name |-> g.layer_name,
                     holes |-> [i \in 1..Len(g.holes) |-> HoleToDict(g.holes[i])],
                     wire_hole_count |-> Len(wire_holes(g.holes)),
                     mounting_hole_count |-> Len(mounting_holes(g.holes)),
                     unknown_hole_count |-> Len(unknown_holes(g.holes)),
                     issues |-> g.issues]],
     orphan_holes |-> [i \in 1..Len(analysis.orphan_holes) |->
                         HoleToDict(analysis.orphan_holes[i])],
     unprocessed_paths |-> analysis.unprocessed_paths,
     detected_scale |-> analysis.detected_scale,
     issues |-> analysis.issues,
     layers_analyzed |->
        ListOfSet({analysis.letter_groups[k].layer_name :
                      k \in 1..Len(analysis.letter_groups)} \ {""}, ord),
     path_accounting |-> analysis.path_accounting]

OrphanIssues(analysis) ==
    [i \in 1..Len(analysis.orphan_holes) |->
       Issue("orphan_hole", "error", analysis.orphan_holes[i].path_id,
             [hole_type |-> analysis.orphan_holes[i].hole_type,
              diameter_mm |-> analysis.orphan_holes[i].diameter_mm])]

\* analysis_config of validate_file.
analysis_config(rules, svg_scale) ==
    [file_scale |-> IF svg_scale # "" THEN svg_scale
                    ELSE IF "letter_hole_analysis" \in rules.names THEN rules.lha.file_scale
                    ELSE NoLha.file_scale,
     standard_hole_sizes |-> IF "letter_hole_analysis" \in rules.names
                             THEN rules.lha.standard_hole_sizes
                             ELSE NoLha.standard_hole_sizes]

\* A variant of ErrorResult that reports a fixed text.
ErrorResultFixedText(e, st) ==
    [success |-> FALSE, status |-> "error", issues |-> <<>>, stats |-> st,
     error |-> <<"Validation failed">>]

\* The result of the except branch, for the error text e.
ErrorResult(e, st) ==
    [success |-> FALSE, status |-> "error", issues |-> <<>>, stats |-> st, error |-> e]

\* A variant of Finally that leaves the temporary file.
FinallyKeepsFile(files, temp) == files

\* The finally block: the temporary file, if one is held, is unlinked.
Finally(files, temp) == IF temp # None THEN files \ {temp} ELSE files

NeedsAnalysis(rules) ==
    rules.names \cap {"letter_hole_analysis", "front_lit_structure",
                      "front_lit_acrylic_face_structure"} # {}

ConvIdle ==
    /\ cpc = "idle"
    /\ cExists = FALSE
    /\ outFile = AbsentFile
    /\ attempts = <<>>
    /\ cResult = NoResult

\* The locals of validate_file at entry.
AtEntry ==
    /\ pc = "start"
    /\ fs = (IF input.file.exists THEN {"input"} ELSE {})
    /\ temp_svg = None
    /\ svg_path = None
    /\ detected_svg_scale = ""
    /\ paths_info = <<>>
    /\ set_order = <<>>
    /\ stats = EmptyStats
    /\ letter_analysis = NoAnalysis
    /\ all_issues = <<>>
    /\ result = NoValidation
    /\ ran = {}
    /\ raised = <<>>

Init ==
    /\ input \in Inputs
    /\ AtEntry
    /\ run = 1
    /\ prev = NoValidation
    /\ raised = <<>>
    /\ ConvIdle
    /\ LayersIdle

\* return from validate_file with result r (the finally block runs).
Return(r) ==
    /\ result' = r
    /\ fs' = Finally(fs, temp_svg)
    /\ pc' = "done"

\* An .svg input is used directly.
VStartSvg ==
    /\ pc = "start"
    /\ input.file.ext = "svg"
    /\ svg_path' = "input"
    /\ temp_svg' = None
    /\ detected_svg_scale' = detect_svg_scale(input.file, "input" \in fs)
    /\ pc' = "extract"
    /\ UNCHANGED <<input, fs, paths_info, set_order, stats, letter_analysis, all_issues,
                   result, ran, run, prev, raised, convVars, layerVars>>

\* Any other input goes through convert_ai_to_svg.
VConvert ==
    /\ pc = "start"
    /\ input.file.ext # "svg"
    /\ \E o1 \in RunOutcomes, o2 \in RunOutcomes, o3 \in RunGsOutcomes :
         LET c == convert_ai_to_svg("input" \in fs, o1, o2, o3) IN
         /\ cResult' = (IF "input" \in fs
                        THEN convert_ai_to_svg_multi(TRUE, EmptyFile, o1, o2, o3).result
                        ELSE cResult)
         /\ IF c.success
            THEN /\ temp_svg' = c.temp
                 /\ svg_path' = "temp"
                 /\ fs' = fs \cup {"temp"}
                 /\ pc' = "extract"
                 /\ UNCHANGED result
            ELSE /\ temp_svg' = c.temp
                 /\ fs' = (IF c.left THEN fs \cup {"temp"} ELSE fs)
                 /\ result' = ErrorResult(c.value, EmptyStats)
                 /\ pc' = "done"
                 /\ UNCHANGED svg_path
    /\ UNCHANGED <<input, detected_svg_scale, paths_info, set_order, stats, letter_analysis,
                   all_issues, ran, run, prev, raised, cpc, cExists, outFile, attempts,
                   layerVars>>

\* extract_paths_from_svg, then filter_production_paths.
VExtract ==
    /\ pc = "extract"
    /\ paths_info' = filter_production_paths(
                        extract_paths_from_svg(input.file, input.doc, svg_path, fs))
    /\ ran' = ran \cup {"extract", "filter"}
    /\ pc' = "stats"
    /\ UNCHANGED <<input, fs, temp_svg, svg_path, detected_svg_scale, set_order, stats,
                   letter_analysis, all_issues, result, run, prev, raised, convVars, layerVars>>

\* Collect stats; list(layers_found) follows the set's iteration order.
VStats ==
    /\ pc = "stats"
    /\ \E ord \in Orderings(LayerSet(paths_info)) :
         /\ set_order' = ord
         /\ stats' = CollectStats(paths_info, ord)
    /\ ran' = ran \cup {"stats"}
    /\ pc' = IF NeedsAnalysis(input.rules) THEN "analysis" ELSE "rules"
    /\ UNCHANGED <<input, fs, temp_svg, svg_path, detected_svg_scale, paths_info,
                   letter_analysis, all_issues, result, run, prev, raised, convVars, layerVars>>

\* 1. Geometry analysis: analyze_letter_hole_associations.
VAnalysis ==
    /\ pc = "analysis"
    /\ LET a == analyze_letter_hole_associations(
                   paths_info, analysis_config(input.rules, detected_svg_scale)) IN
       IF FirstBadTransform(paths_info) # 0
       THEN /\ raised' = <<ValueErrorText>>
            /\ Return(ErrorResult(raised', stats))
            /\ paths_info' = StoreOriginalsRaising(paths_info, FirstBadTransform(paths_info))
            /\ UNCHANGED letter_analysis
       ELSE IF a.raised
       THEN /\ raised' = <<TypeErrorText>>
            /\ Return(ErrorResult(raised', stats))
            /\ paths_info' = a.paths
            /\ UNCHANGED letter_analysis
       ELSE /\ paths_info' = a.paths
            /\ letter_analysis' = a.analysis
            /\ pc' = "classify"
            /\ UNCHANGED <<result, fs, raised>>
    /\ ran' = ran \cup {"analysis"}
    /\ UNCHANGED <<input, temp_svg, svg_path, detected_svg_scale, set_order, stats,
                   all_issues, run, prev, convVars, layerVars>>

\* 2. Classify holes from the standard sizes (the call is made when the
\* table is not empty, and does nothing otherwise).
VClassify ==
    /\ pc = "classify"
    /\ letter_analysis' =
          classify_holes_from_standards(
             letter_analysis,
             analysis_config(input.rules, detected_svg_scale).standard_hole_sizes)
    /\ ran' = ran \cup {"classify"}
    /\ pc' = "engraving"
    /\ UNCHANGED <<input, fs, temp_svg, svg_path, detected_svg_scale, paths_info, set_order,
                   stats, all_issues, result, run, prev, raised, convVars, layerVars>>

\* 2b. Classify engraving paths on the face layer, under the acrylic-face
\* rules only.
VEngraving ==
    /\ pc = "engraving"
    /\ LET e == classify_engraving_paths(letter_analysis, input.rules.ac.face_layer,
                                         input.rules.ac)
       IN IF "front_lit_acrylic_face_structure" \in input.rules.names
          THEN /\ letter_analysis' = [e.analysis EXCEPT !.issues = @ \o e.issues]
               /\ all_issues' = all_issues \o e.issues
          ELSE UNCHANGED <<letter_analysis, all_issues>>
    /\ pc' = "orphans"
    /\ UNCHANGED <<input, fs, temp_svg, svg_path, detected_svg_scale, paths_info, set_order,
                   stats, result, ran, run, prev, raised, convVars, layerVars>>

\* 3. Orphan holes are errors whatever the rules.
VOrphans ==
    /\ pc = "orphans"
    /\ all_issues' = all_issues \o OrphanIssues(letter_analysis)
    /\ letter_analysis' = [letter_analysis EXCEPT !.issues = @ \o OrphanIssues(letter_analysis)]
    /\ ran' = ran \cup {"orphans"}
    /\ pc' = "letter_issues"
    /\ UNCHANGED <<input, fs, temp_svg, svg_path, detected_svg_scale, paths_info, set_order,
                   stats, result, run, prev, raised, convVars, layerVars>>

\* 4, 4b and 5. Per-letter issues for the front-lit and for the acrylic-face
\* rules, then the serialization into stats.
VLetterIssues ==
    /\ pc = "letter_issues"
    /\ LET front == "front_lit_structure" \in input.rules.names
           acrylic == "front_lit_acrylic_face_structure" \in input.rules.names
           g4 == generate_letter_analysis_issues(letter_analysis, input.rules.fl.return_layer,
                                                 input.rules.fl.expected_mounting_names)
           a5 == IF front THEN g4.analysis ELSE letter_analysis
           g6 == generate_letter_analysis_issues(a5, input.rules.ac.return_layer,
                                                 input.rules.ac.expected_mounting_names)
       IN /\ letter_analysis' = (IF acrylic THEN g6.analysis ELSE a5)
          /\ all_issues' = all_issues \o (IF front THEN g4.issues ELSE <<>>)
                                      \o (IF acrylic THEN g6.issues ELSE <<>>)
    /\ stats' = [stats EXCEPT !.letter_analysis = to_dict(letter_analysis', set_order)]
    /\ ran' = ran \cup {"letter_issues"}
    /\ pc' = "rules"
    /\ UNCHANGED <<input, fs, temp_svg, svg_path, detected_svg_scale, paths_info, set_order,
                   result, run, prev, raised, convVars, layerVars>>

\* The four base rules, each when its key is in rules.
VBaseRules ==
    /\ pc = "rules"
    /\ all_issues' =
          all_issues
          \o (IF "no_duplicate_overlapping" \in input.rules.names
              THEN check_overlapping_paths(paths_info) ELSE <<>>)
          \o (IF "stroke_requirements" \in input.rules.names
              THEN check_stroke_requirements(paths_info, input.rules.sr) ELSE <<>>)
          \o (IF "structural_mounting_holes" \in input.rules.names
              THEN check_mounting_holes(paths_info, input.rules.mh) ELSE <<>>)
          \o (IF "path_closure" \in input.rules.names
              THEN check_path_closure(paths_info) ELSE <<>>)
    /\ ran' = ran \cup {"rules"}
    /\ pc' = "structure"
    /\ UNCHANGED <<input, fs, temp_svg, svg_path, detected_svg_scale, paths_info, set_order,
                   stats, letter_analysis, result, run, prev, raised, convVars, layerVars>>

\* The structural checks of the front-lit and acrylic-face rules.
VStructure ==
    /\ pc = "structure"
    /\ all_issues' =
          all_issues
          \o (IF "front_lit_structure" \in input.rules.names
              THEN check_front_lit_structure(paths_info, input.rules.fl, letter_analysis,
                                             set_order)
              ELSE <<>>)
          \o (IF "front_lit_acrylic_face_structure" \in input.rules.names
              THEN check_front_lit_acrylic_face_structure(paths_info, input.rules.ac,
                                                          letter_analysis, set_order)
              ELSE <<>>)
    /\ ran' = ran \cup {"structure"}
                  \cup (input.rules.names \cap {"front_lit_structure",
                                                "front_lit_acrylic_face_structure"})
    /\ pc' = "finish"
    /\ UNCHANGED <<input, fs, temp_svg, svg_path, detected_svg_scale, paths_info, set_order,
                   stats, letter_analysis, result, run, prev, raised, convVars, layerVars>>

\* Status determination and the normal return.
VFinish ==
    /\ pc = "finish"
    /\ Return([success |-> TRUE, status |-> StatusOf(all_issues), issues |-> all_issues,
               stats |-> stats, error |-> <<>>])
    /\ ran' = ran \cup {"aggregate"}
    /\ UNCHANGED <<input, temp_svg, svg_path, detected_svg_scale, paths_info, set_order,
                   stats, letter_analysis, all_issues, run, prev, raised, convVars, layerVars>>

\* An exception raised by the stage about to run (a library or system
\* failure): caught by the except branch of validate_file.
VFault ==
    /\ pc \in {"extract", "stats", "analysis", "classify", "engraving", "orphans",
              "letter_issues", "rules", "structure", "finish"}
    /\ raised' = <<"unexpected failure", pc>>
    /\ Return(ErrorResult(raised', stats))
    /\ UNCHANGED <<input, temp_svg, svg_path, detected_svg_scale, paths_info, set_order,
                   stats, letter_analysis, all_issues, ran, run, prev, convVars, layerVars>>

Next ==
    \/ VStartSvg
    \/ VConvert
    \/ VExtract
    \/ VStats
    \/ VAnalysis
    \/ VClassify
    \/ VEngraving
    \/ VOrphans
    \/ VLetterIssues
    \/ VBaseRules
    \/ VStructure
    \/ VFinish
    \/ VFault

Spec == Init /\ [][Next]_vars

(***************************************************************************)
(* The same call made twice on the same file with the same rules, each     *)
(* call in a process of its own (validate_ai_file.py is one run per        *)
(* process), no converter and no failure of the system involved.           *)
(***************************************************************************)
TwiceInputs ==
    {[file |-> f, doc |-> d, rules |-> r] :
        f \in {File("svg", TRUE, TRUE, FALSE), File("svg", TRUE, TRUE, TRUE)},
        d \in DocParams, r \in AiRuleSets}

InitTwice ==
    /\ input \in TwiceInputs
    /\ AtEntry
    /\ run = 1
    /\ prev = NoValidation
    /\ ConvIdle
    /\ LayersIdle

\* The first call has returned; the second call starts on the same input.
Rerun ==
    /\ pc = "done"
    /\ run = 1
    /\ run' = 2
    /\ prev' = result
    /\ pc' = "start"
    /\ fs' = (IF input.file.exists THEN {"input"} ELSE {})
    /\ temp_svg' = None
    /\ svg_path' = None
    /\ detected_svg_scale' = ""
    /\ paths_info' = <<>>
    /\ set_order' = <<>>
    /\ stats' = EmptyStats
    /\ letter_analysis' = NoAnalysis
    /\ all_issues' = <<>>
    /\ result' = NoValidation
    /\ ran' = {}
    /\ raised' = <<>>
    /\ UNCHANGED <<input, convVars, layerVars>>

NextTwice ==
    \/ VStartSvg
    \/ VExtract
    \/ VStats
    \/ VAnalysis
    \/ VClassify
    \/ VEngraving
    \/ VOrphans
    \/ VLetterIssues
    \/ VBaseRules
    \/ VStructure
    \/ VFinish
    \/ Rerun

SpecTwice == InitTwice /\ [][NextTwice]_vars

(***************************************************************************)
(* The stages after the letter analysis, on analyses that hold holes       *)
(* (SpecHoles).  The run starts where analyze_letter_hole_associations has *)
(* returned its LetterAnalysisResult, the HoleInfo objects being those     *)
(* create_hole_info asks for.                                              *)
(***************************************************************************)
NearSize == [name |-> "Stud Hole", category |-> "mounting",
             diameter_mm |-> 2600, tolerance_mm |-> 100]

ExactSize == [name |-> "Pilot Hole", category |-> "wire",
              diameter_mm |-> 2540, tolerance_mm |-> 100]

\* standard_hole_sizes tables: the standard one, two orders of a table whose
\* sizes overlap, and none.
HoleTables ==
    {StdTable, StdTable \o <<NearSize, ExactSize>>, <<ExactSize, NearSize>>, <<>>}

HoleDocParams ==
    {DocParam(1, w, m, "min", o, e) :
        w \in BOOLEAN, m \in 0..MaxMount, o \in BOOLEAN,
        e \in {"none", "exact", "engraved", "dot", "wire_orphan"}}

HoleRuleSets ==
    {Rules(n \cup {"letter_hole_analysis"},
           [file_scale |-> "0.1", standard_hole_sizes |-> t]) :
        n \in {{}, {"front_lit_structure"}, {"front_lit_acrylic_face_structure"},
               {"front_lit_structure", "front_lit_acrylic_face_structure"},
               {"halo_lit_structure"}},
        t \in HoleTables}

HoleInputs ==
    {[file |-> File("svg", TRUE, TRUE, FALSE), doc |-> d, rules |-> r] :
        d \in HoleDocParams, r \in HoleRuleSets}

\* The paths validate_file hands to the letter analysis for this input.
ProductionPaths(in) == filter_production_paths(Doc(in.doc))

AnalysisOf(in) ==
    analyze_letter_hole_associations(ProductionPaths(in), analysis_config(in.rules, ""))

InitHoles ==
    /\ input \in HoleInputs
    /\ pc = "classify"
    /\ fs = {"input"}
    /\ temp_svg = None
    /\ svg_path = "input"
    /\ detected_svg_scale = ""
    /\ paths_info = AnalysisOf(input).paths
    /\ letter_analysis = AnalysisOf(input).analysis
    /\ set_order \in Orderings(LayerSet(ProductionPaths(input)))
    /\ stats = CollectStats(ProductionPaths(input), set_order)
    /\ all_issues = <<>>
    /\ result = NoValidation
    /\ ran = {"extract", "filter", "stats", "analysis"}
    /\ run = 1
    /\ prev = NoValidation
    /\ raised = <<>>
    /\ ConvIdle
    /\ LayersIdle

NextHoles ==
    \/ VClassify
    \/ VEngraving
    \/ VOrphans
    \/ VLetterIssues
    \/ VBaseRules
    \/ VStructure
    \/ VFinish

SpecHoles == InitHoles /\ [][NextHoles]_vars

(***************************************************************************)
(* svg_parser.py: build_layer_and_transform_map, followed by the layer     *)
(* lookup of extract_paths_from_svg and by filter_production_paths         *)
(* (SpecLayers).                                                           *)
(***************************************************************************)
\* The most children the main group of a document has.
MaxTop == 3

\* element.get('id', '') of an element without id.
NoId == ""

\* An element: its tag, id, inkscape:label, its transform attribute (<<>>
\* without one), whether its style holds display:none, and its children.
Element(tag, id, label, transform, hidden, children) ==
    [tag |-> tag, id |-> id, label |-> label, transform |-> transform, hidden |-> hidden,
     children |-> children]

Group(id, label, children) == Element("g", id, label, <<>>, FALSE, children)

HiddenGroup(id, children) == Element("g", id, "", <<>>, TRUE, children)

Shape(id) == Element("path", id, "", <<>>, FALSE, <<>>)

Defs(children) == Element("defs", NoId, "", <<>>, FALSE, children)

shape_tags == {"path", "circle", "ellipse", "rect", "line", "polyline", "polygon"}

\* The ids and labels the k-th child of the main group and its parts carry.
GroupIds == <<"return", "trim_x20_cap", "face", "back">>

InnerIds == <<"g1", "g2", "g3", "g4">>

SecondIds == <<"h1", "h2", "h3", "h4">>

ShapeIds == <<"p1", "p2", "p3", "p4">>

SecondShapeIds == <<"q1", "q2", "q3", "q4">>

DefsShapeIds == <<"d1", "d2", "d3", "d4">>

HiddenShapeIds == <<"x1", "x2", "x3", "x4">>

LooseIds == <<"s1", "s2", "s3", "s4">>

LabelNames == <<"return", "trimcap", "face", "back">>

\* f'elem_{i}', f'Layer_{i+1}' and f'path_{i}'.
ElemKey(i) == <<"elem_0", "elem_1", "elem_2", "elem_3", "elem_4", "elem_5">>[i + 1]

LayerN(i) == <<"Layer_1", "Layer_2", "Layer_3", "Layer_4", "Layer_5", "Layer_6">>[i + 1]

PathKey(i) ==
    <<"path_0", "path_1", "path_2", "path_3", "path_4", "path_5", "path_6", "path_7">>[i + 1]

TopKinds == {"container", "container_noid", "container2", "orphan", "loose", "defs",
             "nested_defs", "hidden", "hidden_noid"}

\* The kinds a converted layer regularly comes out as.
PlainKinds == {"container", "container2", "orphan", "loose"}

ContainerKinds == {"container", "container_noid", "container2", "nested_defs", "hidden",
                   "hidden_noid"}

\* The k-th child of the main group, of the given kind.
TopElement(kind, k, lab) ==
    CASE kind = "container" ->
            Group(GroupIds[k], lab, <<Group(InnerIds[k], "", <<Shape(ShapeIds[k])>>)>>)
      [] kind = "container_noid" ->
            Group(NoId, lab, <<Group(InnerIds[k], "", <<Shape(ShapeIds[k])>>)>>)
      [] kind = "container2" ->
            Group(GroupIds[k], lab,
                  <<Group(InnerIds[k], "", <<Shape(ShapeIds[k])>>),
                    Element("g", SecondIds[k], "", <<Scale("2")>>, FALSE,
                            <<Element("path", SecondShapeIds[k], "",
                                      <<Translate("10", "0")>>, FALSE, <<>>)>>)>>)
      [] kind = "orphan" ->
            Element("g", GroupIds[k], lab, <<Translate("10", "0")>>, FALSE,
                    <<Shape(ShapeIds[k])>>)
      [] kind = "loose" -> Shape(LooseIds[k])
      [] kind = "defs" -> Defs(<<Shape(DefsShapeIds[k])>>)
      [] kind = "nested_defs" ->
            Group(GroupIds[k], lab,
                  <<Group(InnerIds[k], "",
                          <<Defs(<<Shape(DefsShapeIds[k])>>), Shape(ShapeIds[k])>>)>>)
      [] kind = "hidden" ->
            Group(GroupIds[k], lab,
                  <<HiddenGroup(InnerIds[k], <<Shape(HiddenShapeIds[k])>>),
                    Group(SecondIds[k], "", <<Shape(ShapeIds[k])>>)>>)
      [] OTHER ->
            Group(GroupIds[k], lab,
                  <<HiddenGroup(InnerIds[k], <<Shape(NoId)>>),
                    Group(SecondIds[k], "", <<Shape(ShapeIds[k])>>)>>)

\* The children of the main group of document p.
TopElements(p) ==
    [k \in 1..Len(p.top) |->
       TopElement(p.top[k], k, IF p.labelled THEN LabelNames[k] ELSE "")]

\* The root of document p: flat (the layers are children of the root) or
\* wrapped (one group under the root holds them).
Root(p) ==
    Element("svg", NoId, "", <<>>, FALSE,
            IF p.style = "wrapper" THEN <<Group("layers", "", TopElements(p))>>
            ELSE TopElements(p))

\* What extract_layer_names_from_ai finds (nothing for a native SVG).
NameLists == {<<>>, <<"return">>, <<"return", "trimcap">>, <<"return", "---", "trimcap">>}

LayerDocs ==
    {[names |-> n, style |-> s, labelled |-> l, top |-> t] :
        n \in NameLists, s \in {"flat", "wrapper"}, l \in BOOLEAN,
        t \in {u \in UNION {[1..len -> TopKinds] : len \in 1..MaxTop} :
                  Cardinality({k \in DOMAIN u : u[k] \notin PlainKinds}) <= 1}}

LayerInputs ==
    {[file |-> File("ai", TRUE, TRUE, FALSE), doc |-> d, rules |-> None] : d \in LayerDocs}

\* ai_layer_names: the raw names without the separator layers.
ai_layer_names(raw) == SeqFilter(raw, LAMBDA n : HasAlnum(n))

ChildGroups(element) == SeqFilter(element.children, LAMBDA c : c.tag = "g")

root_groups(root) == ChildGroups(root)

main_group(root) ==
    IF Len(root_groups(root)) = 1 THEN root_groups(root)[1] ELSE root

top_level_groups(root) ==
    IF Len(root_groups(root)) = 1 THEN ChildGroups(root_groups(root)[1])
    ELSE root_groups(root)

\* d[k] = v on a dict.
Put(d, k, v) == (k :> v) @@ d

RECURSIVE ink_labels(_, _, _)
ink_labels(groups, i, d) ==
    IF i > Len(groups) THEN d
    ELSE ink_labels(groups, i + 1,
                    IF groups[i].label # "" /\ groups[i].id # NoId
                    THEN Put(d, groups[i].id, groups[i].label)
                    ELSE d)

\* _decode_illustrator_id on the ids of the model's documents.
decode_illustrator_id(raw_id) == IF raw_id = "trim_x20_cap" THEN "trim cap" ELSE raw_id

\* The SVG-native path: the ids of the top-level groups are the layer names.
RECURSIVE native_layers(_, _, _)
native_layers(groups, i, d) ==
    IF i > Len(groups) THEN d
    ELSE native_layers(groups, i + 1,
                       IF groups[i].id # NoId
                       THEN Put(d, groups[i].id, decode_illustrator_id(groups[i].id))
                       ELSE d)

classify_svg_group(group) ==
    IF /\ \E i \in 1..Len(group.children) : group.children[i].tag = "g"
       /\ group.transform = <<>>
       /\ ~\E i \in 1..Len(group.children) : group.children[i].tag \in shape_tags
    THEN "container" ELSE "orphan"

num_containers(groups) ==
    Cardinality({i \in 1..Len(groups) : classify_svg_group(groups[i]) = "container"})

num_orphans(groups) ==
    Cardinality({i \in 1..Len(groups) : classify_svg_group(groups[i]) = "orphan"})

\* The partitions of the main group's children, each ending at a container;
\* what follows the last container joins the last partition.
RECURSIVE Partitions(_, _, _, _)
Partitions(children, i, partitions, current_partition) ==
    IF i > Len(children)
    THEN IF current_partition # <<>> /\ partitions # <<>>
         THEN [partitions EXCEPT ![Len(partitions)] = @ \o current_partition]
         ELSE IF current_partition # <<>> THEN Append(partitions, current_partition)
         ELSE partitions
    ELSE IF children[i].tag = "g"
         THEN IF classify_svg_group(children[i]) = "container"
              THEN Partitions(children, i + 1,
                              Append(partitions, Append(current_partition, children[i])), <<>>)
              ELSE Partitions(children, i + 1, partitions,
                              Append(current_partition, children[i]))
         ELSE IF children[i].tag \in shape_tags
         THEN Partitions(children, i + 1, partitions, Append(current_partition, children[i]))
         ELSE Partitions(children, i + 1, partitions, current_partition)

\* A variant of NextContent that takes a separator name like any other.
NextContentKeepsSeparators(raw, idx) == idx

\* The index after the next content name of raw from idx on (Len + 1: none).
RECURSIVE NextContent(_, _)
NextContent(raw, idx) ==
    IF idx > Len(raw) THEN idx
    ELSE IF HasAlnum(raw[idx]) THEN idx
    ELSE NextContent(raw, idx + 1)

RECURSIVE PutAll(_, _, _, _, _)
PutAll(d, elems, i, fallback, name) ==
    IF i > Len(elems) THEN d
    ELSE PutAll(Put(d, IF elems[i].id # NoId THEN elems[i].id ELSE fallback, name),
                elems, i + 1, fallback, name)

\* The names given to the partitions: the next content name of the raw list,
\* or Layer_<n> once the list is used up.
RECURSIVE partition_layers(_, _, _, _, _)
partition_layers(partitions, k, raw, content_layer_idx, d) ==
    IF k > Len(partitions) THEN d
    ELSE LET at == NextContent(raw, content_layer_idx) IN
         partition_layers(partitions, k + 1, raw,
                          IF at > Len(raw) THEN at ELSE at + 1,
                          PutAll(d, partitions[k], 1, ElemKey(k - 1),
                                 IF at > Len(raw) THEN LayerN(k - 1) ELSE raw[at]))

\* The simple case: the children (groups and loose shapes) take the names by
\* position, the extra leading ones are named Layer_<n>.
all_children(main) ==
    SeqFilter(main.children, LAMBDA c : c.tag = "g" \/ c.tag \in shape_tags)

RECURSIVE offset_layers(_, _, _, _, _)
offset_layers(children, i, names, offset, d) ==
    IF i > Len(children) THEN d
    ELSE offset_layers(children, i + 1, names, offset,
                       Put(d, IF children[i].id # NoId THEN children[i].id
                              ELSE ElemKey(i - 1),
                           IF names # <<>> /\ 0 <= i - 1 - offset /\ i - 1 - offset < Len(names)
                           THEN names[i - offset]
                           ELSE LayerN(i - 1)))

\* A variant of simple_layers that aligns the names with the head of the
\* children instead of the tail.
simple_layers_from_head(main, names) == offset_layers(all_children(main), 1, names, 0, <<>>)

simple_layers(main, names) ==
    offset_layers(all_children(main), 1, names,
                  IF names # <<>> /\ Len(all_children(main)) > Len(names)
                  THEN Len(all_children(main)) - Len(names) ELSE 0,
                  <<>>)

\* get_top_level_parent: the layer of the first id of the chain that has one.
RECURSIVE get_top_level_parent(_, _, _)
get_top_level_parent(parent_chain, i, g2l) ==
    IF i > Len(parent_chain) THEN ""
    ELSE IF parent_chain[i] \in DOMAIN g2l THEN g2l[parent_chain[i]]
    ELSE get_top_level_parent(parent_chain, i + 1, g2l)

\* The layer a shape with an id outside defs and hidden subtrees is given.
ShapeLayer(path_id, chain, g2l) ==
    IF path_id \in DOMAIN g2l THEN g2l[path_id]
    ELSE IF get_top_level_parent(chain, 1, g2l) # "" THEN get_top_level_parent(chain, 1, g2l)
    ELSE "_no_layer_"

RECURSIVE traverse(_, _, _, _, _, _)
RECURSIVE traverse_children(_, _, _, _, _, _, _)
traverse(element, parent_chain, in_defs, hidden, g2l, lm) ==
    traverse_children(
        element.children, 1,
        IF element.tag = "g" /\ element.id # NoId THEN Append(parent_chain, element.id)
        ELSE parent_chain,
        in_defs \/ element.tag = "defs",
        hidden \/ element.hidden,
        g2l,
        IF element.tag \in shape_tags /\ element.id # NoId
        THEN Put(lm, element.id,
                 IF in_defs THEN "_defs_"
                 ELSE IF hidden \/ element.hidden THEN "_hidden_"
                 ELSE ShapeLayer(element.id, parent_chain, g2l))
        ELSE lm)

traverse_children(children, i, chain, in_defs, hidden, g2l, lm) ==
    IF i > Len(children) THEN lm
    ELSE traverse_children(children, i + 1, chain, in_defs, hidden, g2l,
                           traverse(children[i], chain, in_defs, hidden, g2l, lm))

\* The transform part of traverse: the chain handed down grows by the
\* element's transform, and a shape with an id is filed under that chain
\* followed by its own transform.
RECURSIVE traverse_transforms(_, _, _)
RECURSIVE traverse_transforms_children(_, _, _, _)
traverse_transforms(element, chain, tm) ==
    traverse_transforms_children(
        element.children, 1, chain \o element.transform,
        IF element.tag \in shape_tags /\ element.id # NoId
        THEN Put(tm, element.id, (chain \o element.transform) \o element.transform)
        ELSE tm)

traverse_transforms_children(children, i, chain, tm) ==
    IF i > Len(children) THEN tm
    ELSE traverse_transforms_children(children, i + 1, chain,
                                      traverse_transforms(children[i], chain, tm))

\* The shapes of the document in document order, as svg2paths2 lists them,
\* each with the subtree it lies in.
RECURSIVE ShapesOf(_, _, _)
RECURSIVE ShapesOfChildren(_, _, _, _)
ShapesOf(element, in_defs, hidden) ==
    (IF element.tag \in shape_tags
     THEN <<[id |-> element.id, in_defs |-> in_defs, hidden |-> hidden \/ element.hidden]>>
     ELSE <<>>)
    \o ShapesOfChildren(element.children, 1, in_defs \/ element.tag = "defs",
                        hidden \/ element.hidden)

ShapesOfChildren(children, i, in_defs, hidden) ==
    IF i > Len(children) THEN <<>>
    ELSE ShapesOf(children[i], in_defs, hidden)
         \o ShapesOfChildren(children, i + 1, in_defs, hidden)

\* path_id = attrs.get('id', f'path_{i}') of the i-th shape (from 0).
PathIdOf(shapes, i) == IF shapes[i].id # NoId THEN shapes[i].id ELSE PathKey(i - 1)

\* The PathInfo list of extract_paths_from_svg as far as layers go:
\* layer_name = layer_map.get(path_id), "" standing for None.
ExtractLayers(shapes, lm, tm) ==
    [i \in 1..Len(shapes) |->
       [path_id |-> PathIdOf(shapes, i),
        layer_name |-> IF PathIdOf(shapes, i) \in DOMAIN lm THEN lm[PathIdOf(shapes, i)]
                       ELSE "",
        transform_chain |-> IF PathIdOf(shapes, i) \in DOMAIN tm
                            THEN tm[PathIdOf(shapes, i)] ELSE <<>>]]

InitLayers ==
    /\ input \in LayerInputs
    /\ pc = "groups"
    /\ fs = {"input", "temp"}
    /\ temp_svg = "temp"
    /\ svg_path = "temp"
    /\ detected_svg_scale = ""
    /\ paths_info = <<>>
    /\ set_order = <<>>
    /\ stats = EmptyStats
    /\ letter_analysis = NoAnalysis
    /\ all_issues = <<>>
    /\ result = NoValidation
    /\ ran = {}
    /\ run = 1
    /\ prev = NoValidation
    /\ raised = <<>>
    /\ ConvIdle
    /\ LayersIdle

LayerFrame ==
    UNCHANGED <<input, fs, temp_svg, svg_path, detected_svg_scale, set_order, stats,
                letter_analysis, all_issues, result, run, prev, raised, convVars>>

\* The root's groups are collected; without any the function returns the
\* two empty dicts at once.
LGroups ==
    /\ pc = "groups"
    /\ pc' = IF root_groups(Root(input.doc)) = <<>> THEN "extract_layers" ELSE "resolve"
    /\ ran' = ran \cup (IF root_groups(Root(input.doc)) = <<>> THEN {"no_groups"} ELSE {})
    /\ UNCHANGED <<paths_info, layerVars>>
    /\ LayerFrame

Labels == ink_labels(top_level_groups(Root(input.doc)), 1, <<>>)

\* Preferred path: the inkscape:label attributes.
LLabels ==
    /\ pc = "resolve"
    /\ Labels # <<>>
    /\ group_to_layer' = Labels
    /\ ran' = ran \cup {"labels"}
    /\ pc' = "traverse"
    /\ UNCHANGED <<paths_info, layer_map, transform_map>>
    /\ LayerFrame

\* SVG-native path: no layer names of an AI file, the group ids are used.
LNative ==
    /\ pc = "resolve"
    /\ Labels = <<>>
    /\ ai_layer_names(input.doc.names) = <<>>
    /\ group_to_layer' = native_layers(top_level_groups(Root(input.doc)), 1, <<>>)
    /\ ran' = ran \cup {"native"}
    /\ pc' = "traverse"
    /\ UNCHANGED <<paths_info, layer_map, transform_map>>
    /\ LayerFrame

UsesPartitions(doc) ==
    /\ num_orphans(top_level_groups(Root(doc))) > 0
    /\ num_containers(top_level_groups(Root(doc))) = Len(ai_layer_names(doc.names))

\* Heuristic, container-based partitioning.
LPartition ==
    /\ pc = "resolve"
    /\ Labels = <<>>
    /\ ai_layer_names(input.doc.names) # <<>>
    /\ UsesPartitions(input.doc)
    /\ group_to_layer' =
          partition_layers(Partitions(main_group(Root(input.doc)).children, 1, <<>>, <<>>),
                           1, input.doc.names, 1, <<>>)
    /\ ran' = ran \cup {"partition"}
    /\ pc' = "traverse"
    /\ UNCHANGED <<paths_info, layer_map, transform_map>>
    /\ LayerFrame

\* Heuristic, simple case: names by position with an offset.
LSimple ==
    /\ pc = "resolve"
    /\ Labels = <<>>
    /\ ai_layer_names(input.doc.names) # <<>>
    /\ ~UsesPartitions(input.doc)
    /\ group_to_layer' =
          simple_layers(main_group(Root(input.doc)), ai_layer_names(input.doc.names))
    /\ ran' = ran \cup {"simple"}
    /\ pc' = "traverse"
    /\ UNCHANGED <<paths_info, layer_map, transform_map>>
    /\ LayerFrame

\* traverse(root, [], []) fills layer_map.
LTraverse ==
    /\ pc = "traverse"
    /\ layer_map' = traverse(Root(input.doc), <<>>, FALSE, FALSE, group_to_layer, <<>>)
    /\ transform_map' = traverse_transforms(Root(input.doc), <<>>, <<>>)
    /\ ran' = ran \cup {"traverse"}
    /\ pc' = "extract_layers"
    /\ UNCHANGED <<paths_info, group_to_layer>>
    /\ LayerFrame

\* extract_paths_from_svg builds the paths with the layers of layer_map.
LExtract ==
    /\ pc = "extract_layers"
    /\ paths_info' = ExtractLayers(ShapesOf(Root(input.doc), FALSE, FALSE), layer_map,
                                   transform_map)
    /\ ran' = ran \cup {"extract"}
    /\ pc' = "filter"
    /\ UNCHANGED layerVars
    /\ LayerFrame

\* validate_file filters the paths before any analysis or rule sees them.
LFilter ==
    /\ pc = "filter"
    /\ paths_info' = filter_production_paths(paths_info)
    /\ ran' = ran \cup {"filter"}
    /\ pc' = "filtered"
    /\ UNCHANGED layerVars
    /\ LayerFrame

NextLayers ==
    \/ LGroups
    \/ LLabels
    \/ LNative
    \/ LPartition
    \/ LSimple
    \/ LTraverse
    \/ LExtract
    \/ LFilter

SpecLayers == InitLayers /\ [][NextLayers]_vars

(***************************************************************************)
(* geometry.py: compute_hole_centering (SpecCentering).  The polygon is an *)
(* axis-parallel rectangle given by its bbox; lengths are in cpt, and a    *)
(* distance that misses is NoHit.                                          *)
(***************************************************************************)
\* The default ray_angles: 120..240 inclusive, step 10.
ray_angles == <<120, 130, 140, 150, 160, 170, 180, 190, 200, 210, 220, 230, 240>>

\* <<cos, sin>> of the offsets, in thousandths.
Trig ==
    (120 :> <<-500, 866>>) @@ (130 :> <<-643, 766>>) @@ (140 :> <<-766, 643>>)
    @@ (150 :> <<-866, 500>>) @@ (160 :> <<-940, 342>>) @@ (170 :> <<-985, 174>>)
    @@ (180 :> <<-1000, 0>>) @@ (190 :> <<-985, -174>>) @@ (200 :> <<-940, -342>>)
    @@ (210 :> <<-866, -500>>) @@ (220 :> <<-766, -643>>) @@ (230 :> <<-643, -766>>)
    @@ (240 :> <<-500, -866>>)

\* ray_length = 10000.0, far enough to exit any letter.
ray_length == 1000000

NoHit == -1

Clamp(v, lo, hi) == IF v < lo THEN lo ELSE IF v > hi THEN hi ELSE v

\* The points of the boundary nearest to c on each of the four sides.
SidePoints(b, c) ==
    {<<b[1], Clamp(c[2], b[2], b[4])>>, <<b[3], Clamp(c[2], b[2], b[4])>>,
     <<Clamp(c[1], b[1], b[3]), b[2]>>, <<Clamp(c[1], b[1], b[3]), b[4]>>}

Dist2(p, q) == (p[1] - q[1]) * (p[1] - q[1]) + (p[2] - q[2]) * (p[2] - q[2])

\* nearest_points(boundary, pt): a boundary point at the least distance (one
\* of them when several sides are equally near).
NearestOnBoundary(b, c) ==
    {p \in SidePoints(b, c) : \A q \in SidePoints(b, c) : Dist2(p, c) <= Dist2(q, c)}

\* The distance along the ray from c in direction d (thousandths) to the
\* line of one side, NoHit when the ray does not reach the side.
HitVertical(b, c, d, x) ==
    IF d[1] = 0 \/ (x - c[1]) * d[1] <= 0 THEN NoHit
    ELSE LET t == (Abs(x - c[1]) * 1000) \div Abs(d[1])
             y == c[2] + (t * d[2]) \div 1000
         IN IF t <= ray_length /\ y >= b[2] - 1 /\ y <= b[4] + 1 THEN t ELSE NoHit

HitHorizontal(b, c, d, y) ==
    IF d[2] = 0 \/ (y - c[2]) * d[2] <= 0 THEN NoHit
    ELSE LET t == (Abs(y - c[2]) * 1000) \div Abs(d[2])
             x == c[1] + (t * d[1]) \div 1000
         IN IF t <= ray_length /\ x >= b[1] - 1 /\ x <= b[3] + 1 THEN t ELSE NoHit

\* _extract_nearest_hit of ray.intersection(boundary): the nearest crossing
\* at a distance above eps.
extract_nearest_hit(b, c, d) ==
    LET hits == {HitVertical(b, c, d, b[1]), HitVertical(b, c, d, b[3]),
                 HitHorizontal(b, c, d, b[2]), HitHorizontal(b, c, d, b[4])} \ {NoHit, 0}
    IN IF hits = {} THEN NoHit ELSE SetMin(hits)

\* The direction of the ray at offset_deg from the direction towards the
\* nearest boundary point (u, a unit vector along an axis).
RayDirection(u, offset_deg) ==
    <<Trig[offset_deg][1] * u[1] - Trig[offset_deg][2] * u[2],
      Trig[offset_deg][1] * u[2] + Trig[offset_deg][2] * u[1]>>

Sign(v) == IF v > 0 THEN 1 ELSE IF v < 0 THEN -1 ELSE 0

ray_results(b, c, nearest) ==
    [k \in 1..Len(ray_angles) |->
       [angle_offset_deg |-> ray_angles[k],
        d_ray |-> extract_nearest_hit(
                      b, c, RayDirection(<<Sign(nearest[1] - c[1]), Sign(nearest[2] - c[2])>>,
                                         ray_angles[k]))]]

hit_distances(rays) == {rays[k].d_ray : k \in 1..Len(rays)} \ {NoHit}

\* The result dict once the rays are cast; centering_ratio is the fraction
\* <<numerator, denominator>>, <<0, 1>> for 0.0.
CenteringOf(d_min, rays, d_opposite) ==
    [centering_ratio |-> IF d_min + d_opposite > 0 THEN <<d_min, d_min + d_opposite>>
                         ELSE <<0, 1>>,
     d_min |-> d_min, d_opposite |-> d_opposite, stroke_width |-> d_min + d_opposite,
     ray_results |-> rays,
     rays_missed |-> Cardinality({k \in 1..Len(rays) : rays[k].d_ray = NoHit}),
     on_edge |-> FALSE]

\* A variant that takes the largest ray hit for d_opposite.
d_opposite_farthest(rays) == SetMax(hit_distances(rays))

\* 4. d_opposite = min of all ray hits.
d_opposite_of(rays) == SetMin(hit_distances(rays))

CenteringFromRays(d_min, rays) ==
    IF hit_distances(rays) = {}
    THEN [centering_ratio |-> <<0, 1>>, d_min |-> d_min, d_opposite |-> 0,
          stroke_width |-> 0, ray_results |-> rays, rays_missed |-> Len(rays),
          on_edge |-> FALSE]
    ELSE CenteringOf(d_min, rays, d_opposite_of(rays))

\* compute_hole_centering(polygon, hole_center), for the nearest boundary
\* point nearest_points gave.
compute_hole_centering(b, c, nearest) ==
    IF nearest = c
    THEN [centering_ratio |-> <<0, 1>>, d_min |-> 0, d_opposite |-> 0, stroke_width |-> 0,
          ray_results |-> <<>>, rays_missed |-> 0, on_edge |-> TRUE]
    ELSE CenteringFromRays(Abs(nearest[1] - c[1]) + Abs(nearest[2] - c[2]),
                           ray_results(b, c, nearest))

\* The rectangles and the hole centers of the runs: centers inside, on the
\* boundary and outside, on a grid of 5 pt; outside centers face a side.
CenteringPolygons == {<<0, 0, 4000, 4000>>, <<0, 0, 6000, 2000>>, <<0, 0, 2000, 7000>>}

CenteringInputs ==
    {[polygon |-> b, hole_center |-> <<x * 500, y * 500>>] :
        b \in CenteringPolygons, x \in -1..13, y \in -1..15}

FacesSide(in) ==
    /\ in.hole_center[1] <= in.polygon[3] + 500
    /\ in.hole_center[2] <= in.polygon[4] + 500
    /\ \/ (in.hole_center[1] >= in.polygon[1] /\ in.hole_center[1] <= in.polygon[3])
       \/ (in.hole_center[2] >= in.polygon[2] /\ in.hole_center[2] <= in.polygon[4])

InitCentering ==
    /\ input \in {in \in CenteringInputs : FacesSide(in)}
    /\ pc = "centering"
    /\ fs = {}
    /\ temp_svg = None
    /\ svg_path = None
    /\ detected_svg_scale = ""
    /\ paths_info = <<>>
    /\ set_order = <<>>
    /\ stats = EmptyStats
    /\ letter_analysis = NoAnalysis
    /\ all_issues = <<>>
    /\ result = NoValidation
    /\ ran = {}
    /\ run = 1
    /\ prev = NoValidation
    /\ raised = <<>>
    /\ ConvIdle
    /\ LayersIdle

\* One call of compute_hole_centering.
HoleCentering ==
    /\ pc = "centering"
    /\ \E nearest \in NearestOnBoundary(input.polygon, input.hole_center) :
          result' = compute_hole_centering(input.polygon, input.hole_center, nearest)
    /\ pc' = "centered"
    /\ ran' = {"centering"}
    /\ UNCHANGED <<input, fs, temp_svg, svg_path, detected_svg_scale, paths_info, set_order,
                   stats, letter_analysis, all_issues, run, prev, raised, convVars,
                   layerVars>>

NextCentering == HoleCentering

SpecCentering == InitCentering /\ [][NextCentering]_vars

(***************************************************************************)
(* rules/push_thru.py and rules/push_thru_helpers.py: the push-thru rule   *)
(* (SpecPushThru).  Polygons are given by their areas; a compound path     *)
(* lists the areas of its interior rings.                                  *)
(***************************************************************************)
\* The most cutouts and the most acrylic letters of a push-thru document.
MaxCutouts == 2

PushThruPath(id, layer, area, ext_area, interiors, rectangular) ==
    [path_id |-> id, layer_name |-> layer, is_closed |-> TRUE, is_circle |-> FALSE,
     has_polygon |-> TRUE, area |-> area, ext_area |-> ext_area,
     is_compound |-> interiors # <<>>, interiors |-> interiors,
     rectangular |-> rectangular]

\* The backer layer of a document: none, one compound box with its cutouts
\* as interior rings, a plain box with separate cutout paths, or cutout
\* paths without any box.
BackerKinds == {"none", "compound", "separate", "cutouts_only"}

BackerPaths(kind, layer, n) ==
    CASE kind = "compound" ->
            <<PushThruPath(1, layer, 150000 - 35 * n, 150000, [k \in 1..n |-> 35], TRUE)>>
      [] kind = "separate" ->
            <<PushThruPath(1, layer, 150000, 150000, <<>>, TRUE)>>
            \o [k \in 1..n |-> PushThruPath(10 + k, layer, 35, 35, <<>>, FALSE)]
      [] kind = "cutouts_only" ->
            [k \in 1..n |-> PushThruPath(10 + k, layer, 35, 35, <<>>, FALSE)]
      [] OTHER -> <<>>

AcrylicPaths(n) ==
    [k \in 1..n |-> PushThruPath(20 + k, "push_thru_acrylic", 33, 33, <<>>, FALSE)]

PushThruInputs ==
    {[paths |-> BackerPaths(kind, layer, n) \o AcrylicPaths(a),
      rules |-> [backer_layer |-> "backer", acrylic_layer |-> "push_thru_acrylic"]] :
        kind \in BackerKinds, layer \in {"backer", "Backer", "return"},
        n \in 0..MaxCutouts, a \in 0..MaxCutouts}

\* is_roughly_rectangular of a polygon.
is_roughly_rectangular(q) == q.rectangular

\* The box threshold from the areas, largest first.
box_threshold(areas) ==
    IF Len(areas) >= 3 THEN areas[Len(areas) \div 2 + 1] * 10
    ELSE IF Len(areas) = 2 THEN areas[2] * 5
    ELSE 0

RECURSIVE decompose_from(_, _, _, _, _)
decompose_from(backer_paths, i, threshold, boxes, cutouts) ==
    IF i > Len(backer_paths) THEN <<boxes, cutouts>>
    ELSE LET q == backer_paths[i] IN
         IF q.is_compound /\ Len(q.interiors) > 0
         THEN IF q.ext_area > threshold /\ is_roughly_rectangular(q)
              THEN decompose_from(backer_paths, i + 1, threshold,
                                  IF q.ext_area > 0 THEN Append(boxes, q.ext_area) ELSE boxes,
                                  cutouts \o SeqFilter(q.interiors, LAMBDA r : r > 0))
              ELSE decompose_from(backer_paths, i + 1, threshold, boxes,
                                  Append(cutouts, q.area))
         ELSE IF q.area > threshold /\ is_roughly_rectangular(q)
         THEN decompose_from(backer_paths, i + 1, threshold, Append(boxes, q.area), cutouts)
         ELSE decompose_from(backer_paths, i + 1, threshold, boxes, Append(cutouts, q.area))

\* decompose_backer_compounds: the tuple it returns.
decompose_backer_compounds(paths, backer_layer) ==
    LET backer_paths ==
            SeqFilter(paths, LAMBDA q : /\ q.layer_name # ""
                                        /\ Lower(q.layer_name) = Lower(backer_layer)
                                        /\ q.is_closed /\ q.has_polygon /\ ~q.is_circle)
    IN IF backer_paths = <<>> THEN <<<<>>, <<>>>>
       ELSE decompose_from(
               backer_paths, 1,
               box_threshold(SortSeq([k \in 1..Len(backer_paths) |-> backer_paths[k].area],
                                     LAMBDA a, b : a > b)),
               <<>>, <<>>)

\* The text of the ValueError of unpacking a tuple of n values into three names.
UnpackErrorText(n) ==
    IF n < 3 THEN "not enough values to unpack (expected 3, got 2)"
    ELSE "too many values to unpack (expected 3)"

\* Steps 1 to 3 of check_push_thru_structure once the tuple is unpacked.
PushThruIssues(boxes, cutouts, led_candidates, paths, rules) ==
    LET summary == Issue("push_thru_structure", "info", None,
                         [backer_boxes |-> Len(boxes), backer_cutouts |-> Len(cutouts),
                          led_box_candidates |-> Len(led_candidates)])
        acrylic_paths ==
            SeqFilter(paths, LAMBDA q : /\ q.layer_name # ""
                                        /\ Lower(q.layer_name) = Lower(rules.acrylic_layer)
                                        /\ q.is_closed /\ ~q.is_circle /\ q.has_polygon)
        found == Issue("push_thru_structure", "info", None,
                       [acrylic_count |-> Len(acrylic_paths)])
    IN IF boxes = <<>>
       THEN <<summary, Issue("push_thru_structure", "warning", None, NoDetails)>>
       ELSE IF acrylic_paths = <<>>
       THEN <<summary, found, Issue("push_thru_cutout_count", "error", None, NoDetails)>>
       ELSE <<summary, found>>
            \o (IF Len(acrylic_paths) # Len(cutouts)
                THEN <<Issue("push_thru_cutout_count", "error", None,
                             [cutout_count |-> Len(cutouts),
                              acrylic_count |-> Len(acrylic_paths)])>>
                ELSE <<>>)

\* boxes, cutouts, led_candidates = decompose_backer_compounds(...): the
\* assignment needs exactly three values.
Unpack(ret, paths, rules) ==
    IF Len(ret) # 3
    THEN [raised |-> <<UnpackErrorText(Len(ret))>>, issues |-> <<>>]
    ELSE [raised |-> <<>>, issues |-> PushThruIssues(ret[1], ret[2], ret[3], paths, rules)]

\* check_push_thru_structure(paths_info, rules): the exception it raises or
\* the issues it returns.
check_push_thru_structure(paths, rules) ==
    Unpack(decompose_backer_compounds(paths, rules.backer_layer), paths, rules)

InitPushThru ==
    /\ input \in PushThruInputs
    /\ pc = "push_thru"
    /\ fs = {}
    /\ temp_svg = None
    /\ svg_path = None
    /\ detected_svg_scale = ""
    /\ paths_info = input.paths
    /\ set_order = <<>>
    /\ stats = EmptyStats
    /\ letter_analysis = NoAnalysis
    /\ all_issues = <<>>
    /\ result = NoValidation
    /\ ran = {}
    /\ run = 1
    /\ prev = NoValidation
    /\ raised = <<>>
    /\ ConvIdle
    /\ LayersIdle

\* One call of check_push_thru_structure on the paths.
PushThruCheck ==
    /\ pc = "push_thru"
    /\ raised' = check_push_thru_structure(paths_info, input.rules).raised
    /\ all_issues' = check_push_thru_structure(paths_info, input.rules).issues
    /\ pc' = "push_thru_done"
    /\ ran' = {"push_thru"}
    /\ UNCHANGED <<input, fs, temp_svg, svg_path, detected_svg_scale, paths_info, set_order,
                   stats, letter_analysis, result, run, prev, convVars, layerVars>>

NextPushThru == PushThruCheck

SpecPushThru == InitPushThru /\ [][NextPushThru]_vars

(***************************************************************************)
(* Properties of convert_ai_to_svg_multi (SpecConv).                       *)
(***************************************************************************)
ConverterOrder == <<"Inkscape", "UniConvertor", "Ghostscript+pdf2svg">>

\* The attempts so far are the first converters of the priority order, and
\* every one but the last has failed.
InPriorityOrder ==
    /\ Len(attempts) <= Len(ConverterOrder)
    /\ \A i \in 1..Len(attempts) : attempts[i].name = ConverterOrder[i]
    /\ \A i \in 1..(Len(attempts) - 1) : ~attempts[i].ok

\* A success is the last attempt and ends the call with success reported.
FirstSuccessEnds ==
    \A i \in 1..Len(attempts) :
        attempts[i].ok => /\ i = Len(attempts)
                          /\ cpc = "done"
                          /\ cResult.success

\* C6 as stated: the converters are tried strictly in the order Inkscape,
\* UniConvertor, Ghostscript+pdf2svg, each only after every earlier one has
\* failed, the first success ends the sequence, and overall failure is
\* reported only after all three have been attempted.
C6_AsStated ==
    /\ InPriorityOrder
    /\ FirstSuccessEnds
    /\ (cpc = "done" /\ ~cResult.success) => Len(attempts) = 3

\* C6, amended: the order, the first-success rule and "failure only after all
\* three attempts" hold for an input file that exists; for a missing input
\* file failure is reported at once, with no converter attempted.
C6_Amended ==
    /\ InPriorityOrder
    /\ FirstSuccessEnds
    /\ (cpc = "done" /\ ~cResult.success /\ cExists) =>
          /\ Len(attempts) = 3
          /\ \A i \in 1..3 : ~attempts[i].ok
    /\ (cpc = "done" /\ ~cExists) =>
          /\ ~cResult.success
          /\ attempts = <<>>
          /\ cResult.message = <<"File not found">>
    /\ (cpc = "done" /\ cResult.success) => attempts[Len(attempts)].ok

\* All three converters were tried on an existing file and all failed.
C6_Witness ==
    /\ cpc = "done"
    /\ cExists
    /\ ~cResult.success
    /\ Len(attempts) = 3

(***************************************************************************)
(* Properties of validate_file (Spec).                                     *)
(***************************************************************************)
HasSeverity(issues, sev) == \E i \in 1..Len(issues) : issues[i].severity = sev

Returned == pc = "done"

\* C1: when validate_file completes without a conversion failure or an
\* exception, the status is 'failed' iff some issue is an error, 'warning'
\* iff no issue is an error and some issue is a warning, and 'passed'
\* otherwise; info issues do not change it.
C1_StatusFromSeverities ==
    (Returned /\ result.success) =>
        /\ result.status \in {"failed", "warning", "passed"}
        /\ result.status = "failed" <=> HasSeverity(result.issues, "error")
        /\ result.status = "warning" <=> /\ ~HasSeverity(result.issues, "error")
                                        /\ HasSeverity(result.issues, "warning")
        /\ result.status = "passed" <=> /\ ~HasSeverity(result.issues, "error")
                                       /\ ~HasSeverity(result.issues, "warning")
        /\ result.status =
              StatusOf(SeqFilter(result.issues, LAMBDA i : i.severity # "info"))

\* A completed run whose only issues are warnings.
C1_Witness ==
    /\ Returned
    /\ result.success
    /\ HasSeverity(result.issues, "warning")
    /\ ~HasSeverity(result.issues, "error")
    /\ result.status = "warning"

\* C2: an exception raised in any stage never escapes validate_file: the
\* call returns a result with success = false, status = 'error' and error
\* equal to the text of the exception; and every call that ends returns a
\* result.
C2_ExceptionBecomesErrorResult ==
    /\ Returned => result.status # "pending"
    /\ raised # <<>> =>
          /\ Returned
          /\ result.success = FALSE
          /\ result.status = "error"
          /\ result.error = raised

\* The letter analysis raised the TypeError of the HoleInfo constructor and
\* the call returned.
C2_Witness ==
    /\ Returned
    /\ raised = <<TypeErrorText>>
    /\ "analysis" \in ran
    /\ result.status = "error"

\* C3: for an input that is not an .svg file, when no converter succeeds or
\* the file does not exist, validate_file returns at once with success =
\* false, status = 'error', no issues, empty stats and the conversion error
\* text, and no extraction, analysis or rule stage runs.
C3_ConversionFailureReturnsAtOnce ==
    (input.file.ext # "svg" /\ pc # "start" /\ ~cResult.success) =>
        /\ Returned
        /\ ran = {}
        /\ result = [success |-> FALSE, status |-> "error", issues |-> <<>>,
                     stats |-> EmptyStats,
                     error |-> IF input.file.exists THEN cResult.message
                               ELSE <<"File not found">>]

\* All three converters failed on an existing .ai file.
C3_Witness ==
    /\ Returned
    /\ input.file.ext = "ai"
    /\ input.file.exists
    /\ Len(cResult.attempts) = 3
    /\ ~cResult.success
    /\ result.status = "error"

RuleStages == {"analysis", "classify", "orphans", "letter_issues", "rules", "structure",
               "aggregate"}

\* The document handed to the parser exists and cannot be parsed.
MalformedDocument ==
    /\ ~input.file.wellFormed
    /\ \/ input.file.ext = "svg" /\ input.file.exists
       \/ input.file.ext # "svg" /\ svg_path = "temp"

\* C4 as stated: a malformed vector document ends the run with status
\* 'error' and no rule stage run; the status is never 'passed', 'warning'
\* or 'failed' for it.
C4_AsStated ==
    (Returned /\ MalformedDocument) =>
        /\ result.status = "error"
        /\ ran \cap RuleStages = {}

C7_AsStated == (run = 2 /\ Returned) => result = prev

(***************************************************************************)
(* The front-lit scenarios (Spec).                                         *)
(***************************************************************************)
FrontLitRules == Rules({"front_lit_structure", "letter_hole_analysis"}, StdLha)

\* A run on a readable 10%-scale .svg file of document d under the front-lit
\* rules and the standard hole-size table has returned, no stage having
\* been made to fail from outside.
ScenarioReturned(d) ==
    /\ Returned
    /\ input.file = File("svg", TRUE, TRUE, FALSE)
    /\ input.doc = d
    /\ input.rules = FrontLitRules
    /\ raised \in {<<>>, <<TypeErrorText>>}

ReturnLetters(la) == SeqFilter(la.letters, LAMBDA l : Lower(l.layer_name) = "return")

NoWireHoleErrors(issues, id) ==
    SeqFilter(issues, LAMBDA i : /\ i.rule = "letter_no_wire_hole"
                                 /\ i.severity = "error"
                                 /\ i.path_id = id)

\* C8 as stated: the single-letter file (one return letter with a wire hole
\* and a mounting hole, a trim outline larger by exactly the minimum offset
\* per side) validated with the front-lit rules and the standard table ends
\* with status 'passed', no error issue, exactly one return letter and
\* wire_hole_count = 1 for it.
C8_AsStated ==
    ScenarioReturned(DocParam(1, TRUE, 1, "min", FALSE, "none")) =>
        /\ result.status = "passed"
        /\ ~HasSeverity(result.issues, "error")
        /\ Len(ReturnLetters(result.stats.letter_analysis)) = 1
        /\ ReturnLetters(result.stats.letter_analysis)[1].wire_hole_count = 1

\* C9 as stated: in the result of a run under front-lit rules every return
\* letter without a wire hole has exactly one 'letter_no_wire_hole' error
\* and letters of other layers have none; and the single-letter file with
\* its wire hole removed ends with exactly one such error and status
\* 'failed'.
C9_AsStated ==
    /\ ScenarioReturned(DocParam(1, FALSE, 1, "min", FALSE, "none")) =>
          /\ result.status = "failed"
          /\ Len(SeqFilter(result.issues,
                           LAMBDA i : i.rule = "letter_no_wire_hole")) = 1
          /\ Len(NoWireHoleErrors(result.issues, 10)) = 1
    /\ (Returned /\ result.success /\ "front_lit_structure" \in input.rules.names) =>
          \A k \in 1..Len(result.stats.letter_analysis.letters) :
             LET l == result.stats.letter_analysis.letters[k] IN
             Len(NoWireHoleErrors(result.issues, l.letter_id)) =
                (IF Lower(l.layer_name) = "return" /\ l.wire_hole_count = 0 THEN 1 ELSE 0)

\* The per-side growth g (in 1/100 pt of the file) of a trim outline,
\* converted to real length, lies outside [min, max x miter_factor].
TrimOutOfRange(g, fl, ppi10) ==
    \/ g < 0
    \/ 2540 * g < fl.trim_offset_min_mm * ppi10
    \/ 2540 * g > fl.trim_offset_max_mm * fl.miter_factor * ppi10

TrimOffsetErrors(issues, id) ==
    SeqFilter(issues, LAMBDA i : /\ i.rule = "front_lit_trim_offset"
                                 /\ i.severity = "error"
                                 /\ i.path_id = id)

\* check_front_lit_structure has run on a readable document whose every
\* return letter has a trim outline around it.
TrimChecked ==
    /\ "structure" \in ran
    /\ "front_lit_structure" \in input.rules.names
    /\ input.file.wellFormed
    /\ input.doc.extra = "none"
    /\ input.doc.nRet >= 1
    /\ input.doc.trim \notin {"none", "far"}

\* C10: for every trim letter matched to a return letter,
\* check_front_lit_structure emits a 'front_lit_trim_offset' error exactly
\* when the per-side growth of the trim outline, in real mm, lies outside
\* [trim_offset_min_mm, trim_offset_max_mm x miter_factor]; a trim letter of
\* the size of its return letter always gets this error, whose details
\* carry the measured difference and the expected range.
C10_TrimOffsetRange ==
    TrimChecked =>
        \A k \in 1..input.doc.nRet :
           /\ Len(TrimOffsetErrors(all_issues, 10 * k + 9)) =
                 (IF TrimOutOfRange(TrimGrow(input.doc.trim), input.rules.fl,
                                    IF input.file.inches THEN 10 ELSE 72)
                  THEN 1 ELSE 0)
           /\ input.doc.trim = "zero" =>
                 LET d == TrimOffsetErrors(all_issues, 10 * k + 9)[1].details IN
                 /\ d.width_diff = 0
                 /\ d.height_diff = 0
                 /\ d.expected_min_per_side_mm = input.rules.fl.trim_offset_min_mm
                 /\ d.expected_max_per_side_mm =
                       input.rules.fl.trim_offset_max_mm * input.rules.fl.miter_factor

\* A completed run on a file whose trim outline has the size of its return
\* letter, with the error in the result.
C10_Witness ==
    /\ Returned
    /\ result.success
    /\ TrimChecked
    /\ input.doc.trim = "zero"
    /\ Len(TrimOffsetErrors(result.issues, 19)) = 1

(***************************************************************************)
(* Orphan holes and the hole classifier (Spec, SpecHoles).                 *)
(***************************************************************************)
OrphanErrors(issues, id) ==
    SeqFilter(issues, LAMBDA i : /\ i.rule = "orphan_hole"
                                 /\ i.severity = "error"
                                 /\ i.path_id = id)

\* A run on a readable 10%-scale document with a mounting-hole circle
\* outside every letter has returned after the letter analysis ran with the
\* standard table, no stage having been made to fail from outside.
OrphanRunReturned ==
    /\ Returned
    /\ "analysis" \in ran
    /\ input.file.wellFormed
    /\ ~input.file.inches
    /\ input.doc.orphan
    /\ input.doc.nRet >= 1
    /\ "letter_hole_analysis" \in input.rules.names
    /\ raised \in {<<>>, <<TypeErrorText>>}

\* C11 as stated: whenever letter analysis runs and a hole-like circle lies
\* in no letter, the result carries one 'orphan_hole' error for that circle
\* and the status is 'failed', whichever method rules are active.
C11_AsStated ==
    OrphanRunReturned =>
        /\ result.status = "failed"
        /\ Len(OrphanErrors(result.issues, 3)) = 1

\* The holes of an analysis, per-letter holes first, then orphan holes.
AllHoles(a) ==
    Flatten([k \in 1..Len(a.letter_groups) |-> a.letter_groups[k].holes]) \o a.orphan_holes

ActiveTable == analysis_config(input.rules, detected_svg_scale).standard_hole_sizes

\* The classifier has been called (its table is not empty) and has returned.
Classified == "classify" \in ran /\ ActiveTable # <<>>

\* |real diameter - nominal diameter| of a hole of file diameter d (1/100 pt)
\* at 10% scale, times 72; and the tolerance on that scale.
Deviation72(d, size) == Abs(d * 2540 - size.diameter_mm * 72)

InTolerance72(d, size) == Deviation72(d, size) <= size.tolerance_mm * 72

MatchedSizes(h, table) ==
    {k \in 1..Len(table) : /\ table[k].name = h.matched_name
                           /\ table[k].category = h.hole_type}

\* C13: the classifier matches a hole to a size within that size's own
\* tolerance whose deviation from the hole's real diameter is minimal among
\* the sizes within tolerance, whatever the order of the table; a hole whose
\* real diameter is a size's nominal value is matched to a size of that
\* nominal value.
C13_NearestWithinTolerance ==
    Classified =>
        \A i \in 1..Len(AllHoles(letter_analysis)) :
           LET h == AllHoles(letter_analysis)[i] IN
           (h.diameter_mm > 0
            /\ \E k \in 1..Len(ActiveTable) : InTolerance72(h.diameter_mm, ActiveTable[k]))
           => \E m \in MatchedSizes(h, ActiveTable) :
                 /\ InTolerance72(h.diameter_mm, ActiveTable[m])
                 /\ \A k \in 1..Len(ActiveTable) :
                       InTolerance72(h.diameter_mm, ActiveTable[k]) =>
                          Deviation72(h.diameter_mm, ActiveTable[m])
                             <= Deviation72(h.diameter_mm, ActiveTable[k])

\* A hole of exactly the nominal diameter of the later of two sizes it is
\* within tolerance of has been matched to that later size.
C13_Witness ==
    /\ Classified
    /\ ActiveTable = StdTable \o <<NearSize, ExactSize>>
    /\ \E i \in 1..Len(AllHoles(letter_analysis)) :
          /\ AllHoles(letter_analysis)[i].diameter_mm = 72
          /\ InTolerance72(72, NearSize)
          /\ Deviation72(72, ExactSize) = 0
          /\ AllHoles(letter_analysis)[i].matched_name = ExactSize.name

\* One step changes a hole's type only away from 'unclassified'.
HoleTypeStep ==
    /\ Len(AllHoles(letter_analysis')) = Len(AllHoles(letter_analysis))
    /\ \A i \in 1..Len(AllHoles(letter_analysis)) :
          /\ AllHoles(letter_analysis')[i].path_id = AllHoles(letter_analysis)[i].path_id
          /\ AllHoles(letter_analysis')[i].hole_type # AllHoles(letter_analysis)[i].hole_type
             => /\ AllHoles(letter_analysis)[i].hole_type = "unclassified"
                /\ AllHoles(letter_analysis')[i].hole_type
                      \in {"wire", "mounting", "engraving", "unknown"}

\* C14: across a validation run a hole's hole_type changes at most once,
\* only away from 'unclassified' and never back: no pass changes a hole that
\* is already 'wire', 'mounting', 'engraving' or 'unknown'.
C14_ClassificationMonotonic == [][HoleTypeStep]_vars

\* Both passes have run: the standards classifier typed a hole 'wire' and
\* an orphan 'mounting', the engraving pass typed an inner path 'engraving'.
C14_Witness ==
    /\ pc = "orphans"
    /\ Classified
    /\ \E i \in 1..Len(AllHoles(letter_analysis)) :
          AllHoles(letter_analysis)[i].hole_type = "engraving"
    /\ \E i \in 1..Len(AllHoles(letter_analysis)) :
          AllHoles(letter_analysis)[i].hole_type = "wire"
    /\ \E i \in 1..Len(letter_analysis.orphan_holes) :
          letter_analysis.orphan_holes[i].hole_type = "mounting"

(***************************************************************************)
(* The structure rule modules validate_file runs (Spec)                    *)
(***************************************************************************)
\* The structure rule keys of the four construction methods.
StructureRules == {"front_lit_structure", "front_lit_acrylic_face_structure",
                   "halo_lit_structure", "push_thru_structure"}

\* C17: for each of the four construction methods, when the rules map holds
\* that method's structure rule, validate_file runs that method's rule
\* module on the classified analysis (and its issues count in the result).
C17_AsStated ==
    \A m \in StructureRules :
        (Returned /\ result.success /\ "structure" \in ran /\ m \in input.rules.names)
            => m \in ran

(***************************************************************************)
(* The scale of the analysis (Spec)                                        *)
(***************************************************************************)
\* The letter analysis has returned a result for the run.
Analysed == "analysis" \in ran /\ letter_analysis # NoAnalysis

\* The circles of the document: the candidates a vote on the scale has.
CandidateCircles == {i \in 1..Len(Doc(input.doc)) : Doc(input.doc)[i].is_circle}

\* C20: scale detection counts the candidate circles that match a known hole
\* size under the 10% and under the 100% hypothesis, and when the counts tie
\* (also when there is no candidate circle) the detected scale is 100%.
C20_AsStated ==
    (Analysed /\ detected_svg_scale = "" /\ CandidateCircles = {})
        => letter_analysis.detected_scale = "1.0"

(***************************************************************************)
(* A path with a transform value float() refuses (Spec)                    *)
(***************************************************************************)
\* A path of the run carries a transform chain parse_transform raises on.
HasMalformedPath ==
    \E i \in 1..Len(paths_info) : chain_raises(paths_info[i].transform_chain)

\* No failure of a library or of the system was met by the run.
NoSystemFault == raised = <<>> \/ raised[1] # "unexpected failure"

\* C18: a single malformed path never aborts the file: when a geometry
\* operation fails for one path (here an unparseable transform value), the
\* operation gives no result for that path only and validate_file completes
\* with a status decided by the issues of the run, not status 'error'.
C18_AsStated ==
    (Returned /\ "analysis" \in ran /\ HasMalformedPath /\ NoSystemFault)
        => result.status # "error"

(***************************************************************************)
(* The paths after extraction (Spec)                                       *)
(***************************************************************************)
\* C19: a PathEntity is immutable once built: after extraction no later
\* stage (letter analysis, hole classification, any rule module) changes a
\* path's bounding box, polygon, circle flag or any other attribute, so the
\* paths of the run stay as extraction and the production filter gave them.
C19_AsStated ==
    ("filter" \in ran /\ paths_info # <<>>) => paths_info = ProductionPaths(input)

(***************************************************************************)
(* Properties of the layer resolution (SpecLayers)                         *)
(***************************************************************************)
\* The document has no group labels, its layer names hold no separator, and
\* the children of its main group are exactly one pure container per name.
PureContainerDoc(doc) ==
    /\ ~doc.labelled
    /\ doc.names # <<>>
    /\ ai_layer_names(doc.names) = doc.names
    /\ Len(doc.top) = Len(doc.names)
    /\ \A k \in 1..Len(doc.top) : doc.top[k] \in ContainerKinds

\* The shapes under the i-th child of the main group that lie in no defs
\* and in no hidden subtree.
VisibleShapes(doc, i) ==
    SeqFilter(ShapesOf(TopElements(doc)[i], FALSE, FALSE),
              LAMBDA sh : ~sh.in_defs /\ ~sh.hidden)

\* build_layer_and_transform_map has returned.
LayersMapped == pc \in {"extract_layers", "filter", "filtered"}

\* C15: given N layer names without separators and a converted document
\* without group labels whose top-level groups are N pure containers, every
\* shape under the i-th container is given the i-th name, for i in 1..N.
C15_AsStated ==
    (LayersMapped /\ PureContainerDoc(input.doc))
        => \A i \in 1..Len(input.doc.top) :
              \A j \in 1..Len(VisibleShapes(input.doc, i)) :
                 /\ VisibleShapes(input.doc, i)[j].id \in DOMAIN layer_map
                 /\ layer_map[VisibleShapes(input.doc, i)[j].id] = input.doc.names[i]

\* The shapes of the document that lie in a defs or in a hidden subtree, by
\* the path id extraction gives them.
ExcludedPathIds ==
    {PathIdOf(ShapesOf(Root(input.doc), FALSE, FALSE), i) :
        i \in {j \in 1..Len(ShapesOf(Root(input.doc), FALSE, FALSE)) :
                  \/ ShapesOf(Root(input.doc), FALSE, FALSE)[j].in_defs
                  \/ ShapesOf(Root(input.doc), FALSE, FALSE)[j].hidden}}

\* C16: every shape inside a defs subtree or a display:none subtree is
\* tagged with a sentinel layer whichever resolution strategy is taken, and
\* filter_production_paths removes all of them, so that none reaches the
\* letter analysis or a rule module.
C16_AsStated ==
    /\ LayersMapped
          => \A id \in ExcludedPathIds :
                id \in DOMAIN layer_map /\ layer_map[id] \in {"_defs_", "_hidden_"}
    /\ pc = "filtered"
          => \A i \in 1..Len(paths_info) : paths_info[i].path_id \notin ExcludedPathIds

(***************************************************************************)
(* Whose output a successful conversion accepts (SpecConv)                 *)
(***************************************************************************)
\* C28: when convert_ai_to_svg_multi reports success for a converter, the
\* SVG at the output path was written by that converter in that attempt:
\* output left there by an earlier converter that then failed is never
\* accepted as the result of a later converter.
C28_AsStated ==
    (cpc = "done" /\ cResult.success)
        => outFile.by = attempts[Len(attempts)].name

(***************************************************************************)
(* Container partitioning and the positional offset (SpecLayers)           *)
(***************************************************************************)
\* The children of the main group, as the heuristic walks them.
MainChildren == main_group(Root(input.doc)).children

IsContainerAt(i) ==
    MainChildren[i].tag = "g" /\ classify_svg_group(MainChildren[i]) = "container"

\* The containers in front of child i.
ContainersBefore(i) == Cardinality({j \in 1..(i - 1) : IsContainerAt(j)})

\* The key the partitioning files child i under: its id, or elem_<n> with n
\* the partition (from 0) when it has none.
PartitionKey(i) ==
    IF MainChildren[i].id # NoId THEN MainChildren[i].id ELSE ElemKey(ContainersBefore(i))

OffsetKey(i) ==
    IF all_children(main_group(Root(input.doc)))[i].id # NoId
    THEN all_children(main_group(Root(input.doc)))[i].id
    ELSE ElemKey(i - 1)

\* M top-level elements and K non-separator names.
NumElements == Len(all_children(main_group(Root(input.doc))))

NumNames == Len(ai_layer_names(input.doc.names))

\* C24: when name reconciliation falls back to the positional offset with M
\* top-level elements and K non-separator names, M >= K, the last K elements
\* receive the K names in order and each of the M-K leading elements a
\* synthetic name Layer_<position>; with missing or surplus groups the
\* resolver still returns a mapping (every element has a name).
C24_OffsetNames ==
    ("simple" \in ran) =>
        \A i \in 1..NumElements :
            /\ OffsetKey(i) \in DOMAIN group_to_layer
            /\ NumElements >= NumNames =>
                  group_to_layer[OffsetKey(i)] =
                     IF i > NumElements - NumNames
                     THEN ai_layer_names(input.doc.names)[i - (NumElements - NumNames)]
                     ELSE LayerN(i - 1)

\* The offset heuristic has run on three elements and two names.
C24_Witness ==
    /\ "simple" \in ran
    /\ pc = "filtered"
    /\ NumElements = 3
    /\ NumNames = 2
    /\ group_to_layer[OffsetKey(1)] = "Layer_1"
    /\ group_to_layer[OffsetKey(3)] = "trimcap"

(***************************************************************************)
(* C25: the transform chain recorded for a shape holds the transform of    *)
(* each ancestor group and the shape's own transform exactly once each,    *)
(* outermost first; resolving it applies the innermost transform first and *)
(* the outermost last.                                                     *)
(***************************************************************************)
\* The chain the statement describes: the ancestors' transforms from the
\* root down, then the shape's own.
RECURSIVE ChainsOf(_, _, _)
RECURSIVE ChainsOfChildren(_, _, _, _)
ChainsOf(element, ancestors, acc) ==
    ChainsOfChildren(element.children, 1, ancestors \o element.transform,
                     IF element.tag \in shape_tags /\ element.id # NoId
                     THEN Put(acc, element.id, ancestors \o element.transform)
                     ELSE acc)

ChainsOfChildren(children, i, ancestors, acc) ==
    IF i > Len(children) THEN acc
    ELSE ChainsOfChildren(children, i + 1, ancestors, ChainsOf(children[i], ancestors, acc))

\* One transform applied to a point (values in hundredths).
ApplyOne(pt, t) ==
    IF t.type = "translate" THEN <<pt[1] + FloatValues[t.values[1]],
                                   pt[2] + FloatValues[t.values[2]]>>
    ELSE IF t.type = "scale" THEN <<(pt[1] * FloatValues[t.values[1]]) \div 100,
                                    (pt[2] * FloatValues[t.values[1]]) \div 100>>
    ELSE pt

\* The innermost (last) transform first, the outermost (first) last.
RECURSIVE InnermostFirst(_, _)
InnermostFirst(pt, chain) ==
    IF chain = <<>> THEN pt
    ELSE InnermostFirst(ApplyOne(pt, chain[Len(chain)]), SubSeq(chain, 1, Len(chain) - 1))

ProbePoint == <<100, 0>>

Resolved(chain) ==
    apply_transform_to_point(ProbePoint, [k \in 1..Len(chain) |-> parse_transform(chain[k])])

\* C25: every recorded chain is the ancestors' transforms from the outermost
\* group down followed by the shape's own transform, each exactly once, and
\* resolving it applies the innermost transform first, the outermost last.
C25_AsStated ==
    ("traverse" \in ran) =>
        \A id \in DOMAIN transform_map :
            /\ transform_map[id] = ChainsOf(Root(input.doc), <<>>, <<>>)[id]
            /\ Resolved(transform_map[id])
                  = InnermostFirst(ProbePoint, ChainsOf(Root(input.doc), <<>>, <<>>)[id])

(***************************************************************************)
(* C21: within one layer, a closed non-circular path that has a polygon is *)
(* a letter exactly when no same-layer path of strictly larger area        *)
(* contains it; a path contained only by paths of equal or smaller area is *)
(* still a letter.                                                         *)
(***************************************************************************)
LetterIds ==
    {letter_analysis.letter_groups[k].letter_id : k \in 1..Len(letter_analysis.letter_groups)}

\* Some other candidate of the same layer, of strictly larger area, contains q.
HasLargerContainer(q) ==
    \E j \in 1..Len(paths_info) :
        /\ IsLetterCandidate(paths_info[j])
        /\ paths_info[j].path_id # q.path_id
        /\ Lower(paths_info[j].layer_name) = Lower(q.layer_name)
        /\ paths_info[j].area > q.area
        /\ polygon_contains(paths_info[j].bbox, q.bbox, containment_tolerance)

\* C21: a closed non-circular path with a polygon is among the letters
\* exactly when no same-layer path of strictly larger area contains it.
C21_AsStated ==
    Analysed =>
        \A i \in 1..Len(paths_info) :
            IsLetterCandidate(paths_info[i]) =>
                (paths_info[i].path_id \in LetterIds <=> ~HasLargerContainer(paths_info[i]))

(***************************************************************************)
(* C22: a circle whose real diameter exceeds 16 mm is treated as letter    *)
(* geometry and never reported as a hole: it is in no letter's hole list   *)
(* and not among the orphan holes, inside another letter or outside all.   *)
(***************************************************************************)
\* The circles of the document of more than 16 mm real diameter.
LargeCircleIds ==
    {Doc(input.doc)[i].path_id : i \in
        {j \in 1..Len(Doc(input.doc)) :
            /\ Doc(input.doc)[j].is_circle
            /\ Doc(input.doc)[j].circle_diameter * 2540
                 > max_hole_mm * PointsPerInch10(
                      analysis_config(input.rules, detected_svg_scale).file_scale)}}

CircleIds ==
    {Doc(input.doc)[i].path_id : i \in {j \in 1..Len(Doc(input.doc)) : Doc(input.doc)[j].is_circle}}

\* The paths a HoleInfo was made of.
ReportedHoleIds ==
    {letter_analysis.orphan_holes[i].path_id : i \in 1..Len(letter_analysis.orphan_holes)}
    \cup UNION {{letter_analysis.letter_groups[k].holes[i].path_id :
                    i \in 1..Len(letter_analysis.letter_groups[k].holes)} :
                k \in 1..Len(letter_analysis.letter_groups)}

\* C22: no circle of more than 16 mm real diameter is among the holes of a
\* letter or among the orphan holes, and a document whose circles are all
\* that large is analysed as letter geometry: no HoleInfo is attempted.
C22_AsStated ==
    /\ Analysed => ReportedHoleIds \cap LargeCircleIds = {}
    /\ ("analysis" \in ran /\ LargeCircleIds # {} /\ CircleIds = LargeCircleIds)
          => raised # <<TypeErrorText>>

(***************************************************************************)
(* C29: in every result of analyze_letter_hole_associations that holds at  *)
(* least one letter, each input path is counted exactly once in            *)
(* path_accounting.                                                        *)
(***************************************************************************)
AccountedPaths(acc) ==
    acc.letters + acc.holes_in_letters + acc.orphan_holes + acc.open_paths
    + acc.defs_paths + acc.off_layer + acc.unclassified

\* C29: with at least one letter in the result, letters + holes_in_letters +
\* orphan_holes + open_paths + defs_paths + off_layer + unclassified = total.
C29_AsStated ==
    (Analysed /\ letter_analysis.letter_groups # <<>>)
        => AccountedPaths(letter_analysis.path_accounting)
              = letter_analysis.path_accounting.total

(***************************************************************************)
(* C30: the hole type 'unclassified' never appears in the serialized       *)
(* output of validate_file, also when no standard-size table is configured.*)
(***************************************************************************)
\* No issue of the list names the hole type 'unclassified' in its details.
IssueTypesClassified(issues) ==
    \A i \in 1..Len(issues) :
        "hole_type" \in DOMAIN issues[i].details
            => issues[i].details.hole_type # "unclassified"

HoleTypesClassified(holes) ==
    \A i \in 1..Len(holes) : holes[i].hole_type # "unclassified"

SerializedAnalysisClassified(st) ==
    ("letter_analysis" \in DOMAIN st /\ st.letter_analysis # NoAnalysis) =>
        /\ HoleTypesClassified(st.letter_analysis.orphan_holes)
        /\ \A k \in 1..Len(st.letter_analysis.letters) :
              HoleTypesClassified(st.letter_analysis.letters[k].holes)
        /\ IssueTypesClassified(st.letter_analysis.issues)

NearestDistance ==
    LET b == input.polygon
        c == input.hole_center
    IN IF c[1] >= b[1] /\ c[1] <= b[3] /\ c[2] >= b[2] /\ c[2] <= b[4]
       THEN SetMin({c[1] - b[1], b[3] - c[1], c[2] - b[2], b[4] - c[2]})
       ELSE SetMax({b[1] - c[1], c[1] - b[3], b[2] - c[2], c[2] - b[4]})

StrictlyInside ==
    /\ input.hole_center[1] > input.polygon[1] /\ input.hole_center[1] < input.polygon[3]
    /\ input.hole_center[2] > input.polygon[2] /\ input.hole_center[2] < input.polygon[4]

\* The hit distances the result lists for its rays.
RayHits == {result.ray_results[k].d_ray : k \in 1..Len(result.ray_results)} \ {NoHit}

RaysCast == pc = "centered" /\ ~result.on_edge /\ RayHits # {}

\* The rays of the result cover 120..240 degrees from the direction of the
\* nearest point, the middle one pointing straight away from it.
OppositeArc ==
    /\ [k \in 1..Len(result.ray_results) |-> result.ray_results[k].angle_offset_deg]
          = [k \in 1..13 |-> 110 + 10 * k]
    /\ StrictlyInside =>
          result.ray_results[7].d_ray
             \in {input.polygon[3] - input.polygon[1] - NearestDistance,
                  input.polygon[4] - input.polygon[2] - NearestDistance}

\* C26 as stated: with rays that hit, the ratio is d_min / (d_min + d_far)
\* for d_far the largest hit distance among the rays.
C26_AsStated ==
    RaysCast =>
        /\ result.d_min = NearestDistance
        /\ result.centering_ratio[1] * (NearestDistance + SetMax(RayHits))
              = NearestDistance * result.centering_ratio[2]

\* C26 amended: with rays that hit, the ratio is d_min / (d_min + d_opposite)
\* for d_opposite the SMALLEST hit distance among the rays over the arc
\* opposite the nearest point; it is 0 for a center on the boundary and when
\* every ray misses.
C26_Amended ==
    (pc = "centered") =>
        IF result.on_edge \/ RayHits = {}
        THEN /\ result.centering_ratio = <<0, 1>>
             /\ result.on_edge <=> NearestDistance = 0
             /\ StrictlyInside => result.on_edge
        ELSE /\ result.d_min = NearestDistance
             /\ OppositeArc
             /\ \E k \in 1..Len(result.ray_results) :
                   /\ result.ray_results[k].d_ray # NoHit
                   /\ \A j \in 1..Len(result.ray_results) :
                         result.ray_results[j].d_ray = NoHit
                         \/ result.ray_results[k].d_ray <= result.ray_results[j].d_ray
                   /\ result.centering_ratio
                         = <<NearestDistance, NearestDistance + result.ray_results[k].d_ray>>

\* A hole off the middle of a wide rectangle: the rays hit at different
\* distances, so the smallest and the largest hit differ.
C26_Witness ==
    /\ RaysCast
    /\ StrictlyInside
    /\ SetMin(RayHits) < SetMax(RayHits)
    /\ result.rays_missed = 0

(***************************************************************************)
(* C27: check_push_thru_structure returns a list of ValidationIssues for   *)
(* every input; when the backer layer holds no compound path with cutouts  *)
(* (or no paths at all) it returns an informational summary plus a         *)
(* 'push_thru_structure' warning instead of failing (SpecPushThru).        *)
(***************************************************************************)
\* No path of the backer layer is a box: no compound path with cutouts and
\* no plain rectangle.
NoBackerBox ==
    \A i \in 1..Len(input.paths) :
        Lower(input.paths[i].layer_name) = Lower(input.rules.backer_layer)
            => ~input.paths[i].rectangular

\* C27: every call returns a list of issues and raises nothing; without a
\* box on the backer layer the list is the informational summary followed
\* by a 'push_thru_structure' warning.
C27_AsStated ==
    (pc = "push_thru_done") =>
        /\ raised = <<>>
        /\ all_issues # <<>>
        /\ all_issues[1].rule = "push_thru_structure" /\ all_issues[1].severity = "info"
        /\ NoBackerBox =>
              /\ Len(all_issues) = 2
              /\ all_issues[2].rule = "push_thru_structure"
              /\ all_issues[2].severity = "warning"

====
